---- MODULE Spec2Model ----
(***************************************************************************)
(* Document extractor: the upload pipeline (routes/upload.ts), the LLM     *)
(* client and response validator (services/claude.ts), the text extractor  *)
(* (services/textExtractor.ts) and the storage service                     *)
(* (services/database.ts).                                                 *)
(*                                                                         *)
(* JavaScript strings are TLA+ strings (Len, SubSeq and \o act on their    *)
(* characters).  JSON values are tagged records; they are kept in          *)
(* sequences and records, never in sets.                                   *)
(***************************************************************************)
EXTENDS Integers, Sequences, FiniteSets, TLC

\* ------------------------------------------------------------------------
\* JavaScript strings
\* ------------------------------------------------------------------------

\* the backquote character (written ' here: the module's lexer has no backquote)
BQ == "'"

\* the characters a..b of s (1-based, inclusive), clipped to the string
Sub(s, a, b) ==
    LET lo == IF a < 1 THEN 1 ELSE a
        hi == IF b > Len(s) THEN Len(s) ELSE b
    IN  IF lo > hi THEN "" ELSE SubSeq(s, lo, hi)

\* s[i] of a JavaScript string ("" past either end)
Ch(s, i) == Sub(s, i, i)

\* s.slice(a) / s.slice(0, n), 0-based as in JavaScript, a and n >= 0
SliceFrom(s, a) == Sub(s, a + 1, Len(s))
SliceTo(s, n) == Sub(s, 1, n)
\* s.slice(0, -n)
DropLast(s, n) == SliceTo(s, Len(s) - n)

startsWith(s, p) == Len(s) >= Len(p) /\ SliceTo(s, Len(p)) = p
endsWith(s, p) == Len(s) >= Len(p) /\ SliceFrom(s, Len(s) - Len(p)) = p

IsSpace(c) == c \in {" ", "\n", "\t", "\r"}

RECURSIVE FirstNonSpace(_, _)
FirstNonSpace(s, i) ==
    IF i <= Len(s) /\ IsSpace(Ch(s, i)) THEN FirstNonSpace(s, i + 1) ELSE i

RECURSIVE LastNonSpace(_, _)
LastNonSpace(s, i) ==
    IF i >= 1 /\ IsSpace(Ch(s, i)) THEN LastNonSpace(s, i - 1) ELSE i

\* String.prototype.trim
trim(s) ==
    LET a == FirstNonSpace(s, 1)
        b == LastNonSpace(s, Len(s))
    IN  Sub(s, a, b)

\* ------------------------------------------------------------------------
\* JavaScript values as produced by JSON.parse
\* ------------------------------------------------------------------------

JUndefined == [t |-> "undefined"]
JNull == [t |-> "null"]
JBool(b) == [t |-> "bool", b |-> b]
\* a number is kept as its literal, which is also its String() form
JNum(lit) == [t |-> "num", lit |-> lit]
JStr(s) == [t |-> "str", s |-> s]
JArr(a) == [t |-> "arr", a |-> a]
\* an object: its keys and values in source order
JObj(ks, vs) == [t |-> "obj", ks |-> ks, vs |-> vs]

RECURSIVE LookupFrom(_, _, _, _)
LookupFrom(ks, vs, key, i) ==
    IF i = 0 THEN JUndefined
    ELSE IF ks[i] = key THEN vs[i]
    ELSE LookupFrom(ks, vs, key, i - 1)

\* value[key] for a property name that is neither an index nor built in
\* (a repeated key keeps its last value, as JSON.parse does)
Get(value, key) ==
    IF value.t = "obj" THEN LookupFrom(value.ks, value.vs, key, Len(value.ks))
    ELSE JUndefined

\* typeof value === "object"
TypeofObject(value) == value.t \in {"null", "arr", "obj"}

\* !value
Falsy(value) ==
    \/ value.t \in {"undefined", "null"}
    \/ value.t = "bool" /\ ~value.b
    \/ value.t = "num" /\ value.lit \in {"0", "-0"}
    \/ value.t = "str" /\ value.s = ""

RECURSIVE JSString(_)
RECURSIVE JoinFrom(_, _)
\* Array.prototype.join(","): null and undefined elements give ""
JoinFrom(a, i) ==
    IF i > Len(a) THEN ""
    ELSE (IF a[i].t \in {"null", "undefined"} THEN "" ELSE JSString(a[i]))
         \o (IF i < Len(a) THEN "," ELSE "")
         \o JoinFrom(a, i + 1)

\* String(value)
JSString(value) ==
    CASE value.t = "undefined" -> "undefined"
      [] value.t = "null" -> "null"
      [] value.t = "bool" -> IF value.b THEN "true" ELSE "false"
      [] value.t = "num" -> IF value.lit = "-0" THEN "0" ELSE value.lit
      [] value.t = "str" -> value.s
      [] value.t = "arr" -> JoinFrom(value.a, 1)
      [] value.t = "obj" -> "[object Object]"

\* ------------------------------------------------------------------------
\* JSON.parse, for the grammar of RFC 8259 without string escapes,
\* fractions and exponents
\* ------------------------------------------------------------------------

ParseFail == [ok |-> FALSE, val |-> JUndefined, pos |-> 0]
ParseOk(v, p) == [ok |-> TRUE, val |-> v, pos |-> p]

IsDigit(c) == c \in {"0", "1", "2", "3", "4", "5", "6", "7", "8", "9"}

\* index of the quote closing the string that starts after position i - 1,
\* 0 when there is none (or a control character or an escape comes first)
RECURSIVE ClosingQuote(_, _)
ClosingQuote(s, i) ==
    IF i > Len(s) \/ Ch(s, i) \in {"\n", "\t", "\r", "\\"} THEN 0
    ELSE IF Ch(s, i) = "\"" THEN i
    ELSE ClosingQuote(s, i + 1)

RECURSIVE DigitsEnd(_, _)
DigitsEnd(s, i) == IF IsDigit(Ch(s, i)) THEN DigitsEnd(s, i + 1) ELSE i

\* an integer literal at position i: -? (0 | [1-9][0-9]*)
ParseNumber(s, i) ==
    LET d == IF Ch(s, i) = "-" THEN i + 1 ELSE i
        e == IF Ch(s, d) = "0" THEN d + 1 ELSE DigitsEnd(s, d)
    IN  IF e = d \/ Ch(s, e) \in {".", "e", "E"} THEN ParseFail
        ELSE ParseOk(JNum(Sub(s, i, e - 1)), e)

ParseLiteral(s, i, word, v) ==
    IF Sub(s, i, i + Len(word) - 1) = word THEN ParseOk(v, i + Len(word))
    ELSE ParseFail

RECURSIVE ParseValue(_, _)
RECURSIVE ParseElements(_, _, _)
RECURSIVE ParseMembers(_, _, _, _)

\* the elements of an array, the first one starting at i
ParseElements(s, i, acc) ==
    LET r == ParseValue(s, i)
        k == FirstNonSpace(s, r.pos)
    IN  IF ~r.ok THEN ParseFail
        ELSE IF Ch(s, k) = "," THEN
            ParseElements(s, FirstNonSpace(s, k + 1), Append(acc, r.val))
        ELSE IF Ch(s, k) = "]" THEN ParseOk(JArr(Append(acc, r.val)), k + 1)
        ELSE ParseFail

\* the members of an object, the first key starting at i
ParseMembers(s, i, ks, vs) ==
    LET e == ClosingQuote(s, i + 1)
        c == FirstNonSpace(s, e + 1)
        r == ParseValue(s, FirstNonSpace(s, c + 1))
        k == FirstNonSpace(s, r.pos)
        key == Sub(s, i + 1, e - 1)
    IN  IF Ch(s, i) # "\"" \/ e = 0 \/ Ch(s, c) # ":" THEN ParseFail
        ELSE IF ~r.ok THEN ParseFail
        ELSE IF Ch(s, k) = "," THEN
            ParseMembers(s, FirstNonSpace(s, k + 1),
                         Append(ks, key), Append(vs, r.val))
        ELSE IF Ch(s, k) = "}" THEN
            ParseOk(JObj(Append(ks, key), Append(vs, r.val)), k + 1)
        ELSE ParseFail

\* the value that starts at position i (i is not on white space)
ParseValue(s, i) ==
    LET c == Ch(s, i) IN
    CASE c = "{" ->
            LET j == FirstNonSpace(s, i + 1)
            IN  IF Ch(s, j) = "}" THEN ParseOk(JObj(<<>>, <<>>), j + 1)
                ELSE ParseMembers(s, j, <<>>, <<>>)
      [] c = "[" ->
            LET j == FirstNonSpace(s, i + 1)
            IN  IF Ch(s, j) = "]" THEN ParseOk(JArr(<<>>), j + 1)
                ELSE ParseElements(s, j, <<>>)
      [] c = "\"" ->
            LET e == ClosingQuote(s, i + 1)
            IN  IF e = 0 THEN ParseFail
                ELSE ParseOk(JStr(Sub(s, i + 1, e - 1)), e + 1)
      [] c = "n" -> ParseLiteral(s, i, "null", JNull)
      [] c = "t" -> ParseLiteral(s, i, "true", JBool(TRUE))
      [] c = "f" -> ParseLiteral(s, i, "false", JBool(FALSE))
      [] c = "-" \/ IsDigit(c) -> ParseNumber(s, i)
      [] OTHER -> ParseFail

\* JSON.parse(s): ok is FALSE where JSON.parse throws a SyntaxError
JSONparse(s) ==
    LET r == ParseValue(s, FirstNonSpace(s, 1))
    IN  IF r.ok /\ FirstNonSpace(s, r.pos) = Len(s) + 1 THEN r ELSE ParseFail

\* ------------------------------------------------------------------------
\* services/claude.ts: the response validator
\* ------------------------------------------------------------------------

\* a thrown Error / a returned value
Throw(msg) == [threw |-> TRUE, message |-> msg, value |-> <<>>]
Return(v) == [threw |-> FALSE, message |-> "", value |-> v]

\* normalizeString that does not trim the strings it keeps
normalizeStringUntrimmed(value) ==
    IF value.t \in {"null", "undefined"} THEN JNull
    ELSE IF value.t = "str" THEN
        (IF Len(trim(value.s)) > 0 THEN JStr(value.s) ELSE JNull)
    ELSE JStr(JSString(value))

\* normalizeString: null or a string (as a JavaScript value)
normalizeString(value) ==
    IF value.t \in {"null", "undefined"} THEN JNull
    ELSE IF value.t = "str" THEN
        (IF Len(trim(value.s)) > 0 THEN JStr(trim(value.s)) ELSE JNull)
    ELSE JStr(JSString(value))

createEmptyEntity ==
    [full_name |-> JNull, email |-> JNull, phone_number |-> JNull,
     address |-> JNull, organisation |-> JNull, role_title |-> JNull,
     comments |-> JNull]

\* the callback of entities.map in validateEntities
validateEntity(entity) ==
    IF Falsy(entity) \/ ~TypeofObject(entity) THEN createEmptyEntity
    ELSE [full_name |-> normalizeString(Get(entity, "full_name")),
          email |-> normalizeString(Get(entity, "email")),
          phone_number |-> normalizeString(Get(entity, "phone_number")),
          address |-> normalizeString(Get(entity, "address")),
          organisation |-> normalizeString(Get(entity, "organisation")),
          role_title |-> normalizeString(Get(entity, "role_title")),
          comments |-> normalizeString(Get(entity, "comments"))]

\* validateEntities that returns the entities last to first
validateEntitiesReversed(entities) ==
    [i \in 1..Len(entities) |-> validateEntity(entities[Len(entities) + 1 - i])]

\* validateEntities that skips the elements that are not objects
validateEntitiesSkipNonObjects(entities) ==
    LET objects == SelectSeq(entities,
                             LAMBDA e : ~(Falsy(e) \/ ~TypeofObject(e)))
    IN  [i \in 1..Len(objects) |-> validateEntity(objects[i])]

validateEntities(entities) ==
    [i \in 1..Len(entities) |-> validateEntity(entities[i])]

\* the text handed to JSON.parse: trimmed, code fences stripped, trimmed
stripFences(responseText) ==
    LET t0 == trim(responseText)
        t1 == IF startsWith(t0, BQ \o BQ \o BQ \o "json") THEN SliceFrom(t0, 7)
              ELSE IF startsWith(t0, BQ \o BQ \o BQ) THEN SliceFrom(t0, 3)
              ELSE t0
        t2 == IF endsWith(t1, BQ \o BQ \o BQ) THEN DropLast(t1, 3) ELSE t1
    IN  trim(t2)

\* parseExtractionResponse that takes a wrong shape for no entity
parseExtractionResponseLenient(responseText) ==
    LET r == JSONparse(stripFences(responseText))
        parsed == r.val
        entities == Get(parsed, "entities")
    IN  IF ~r.ok THEN
            Throw("Claude returned invalid JSON. Response: "
                  \o SliceTo(responseText, 200))
        ELSE IF Falsy(parsed) \/ ~TypeofObject(parsed) THEN Return(<<>>)
        ELSE IF entities.t # "arr" THEN
            (IF parsed.t = "arr" THEN Return(validateEntities(parsed.a))
             ELSE Return(<<>>))
        ELSE Return(validateEntities(entities.a))

\* parseExtractionResponse that puts the whole response in its message
parseExtractionResponseVerbose(responseText) ==
    LET r == JSONparse(stripFences(responseText))
        parsed == r.val
        entities == Get(parsed, "entities")
    IN  IF ~r.ok THEN
            Throw("Claude returned invalid JSON. Response: " \o responseText)
        ELSE IF Falsy(parsed) \/ ~TypeofObject(parsed) THEN
            Throw("Claude response is not an object")
        ELSE IF entities.t # "arr" THEN
            (IF parsed.t = "arr" THEN Return(validateEntities(parsed.a))
             ELSE Throw("Claude response missing 'entities' array"))
        ELSE Return(validateEntities(entities.a))

\* parseExtractionResponse: returns the entity list or throws
parseExtractionResponse(responseText) ==
    LET r == JSONparse(stripFences(responseText))
        parsed == r.val
        entities == Get(parsed, "entities")
    IN  IF ~r.ok THEN
            Throw("Claude returned invalid JSON. Response: "
                  \o SliceTo(responseText, 200))
        ELSE IF Falsy(parsed) \/ ~TypeofObject(parsed) THEN
            Throw("Claude response is not an object")
        ELSE IF entities.t # "arr" THEN
            (IF parsed.t = "arr" THEN Return(validateEntities(parsed.a))
             ELSE Throw("Claude response missing 'entities' array"))
        ELSE Return(validateEntities(entities.a))

\* ------------------------------------------------------------------------
\* services/claude.ts: the extraction client
\* ------------------------------------------------------------------------

MODEL == "claude-sonnet-4-20250514"

maxTextLength == 50000

\* truncate that cuts a document of exactly maxTextLength characters
truncateAtBudget(documentText) ==
    IF Len(documentText) >= maxTextLength
    THEN SliceTo(documentText, maxTextLength) \o "\n\n[Document truncated...]"
    ELSE documentText

\* the document text as sent: cut at maxTextLength, with the marker
truncate(documentText) ==
    IF Len(documentText) > maxTextLength
    THEN SliceTo(documentText, maxTextLength) \o "\n\n[Document truncated...]"
    ELSE documentText

\* what anthropic.messages.create may do: reject with an APIError, or resolve
\* with a message whose content is a list of blocks
ApiErrors ==
    {[kind |-> "APIError", status |-> "429", message |-> "rate_limit_error",
      content |-> <<>>]}

\* the texts the model may answer with: not JSON, JSON of the wrong shape, no
\* entity, and a fenced envelope of two elements (an object and a string)
ResponseTexts ==
    { "not json at all",
      "{\"people\":[]}",
      "{\"entities\":[]}",
      "'''json\n{\"entities\":[{\"full_name\":\"Jane Doe\",\"email\":\" jane@x.com \"},\"x\"]}\n'''" }

TextBlock(text) == [type |-> "text", text |-> text]
ToolUseBlock == [type |-> "tool_use", text |-> ""]

Message(content) ==
    [kind |-> "message", status |-> "200", message |-> "", content |-> content]

Messages ==
    {Message(<<TextBlock(t)>>) : t \in ResponseTexts}
    \cup {Message(<<ToolUseBlock>>)}

LlmOutcomes == ApiErrors \cup Messages

\* parseExtractionResponse on the texts the service may return, computed once
Parsed == [t \in ResponseTexts |-> parseExtractionResponse(t)]

\* callClaudeForExtraction with a rejected response swallowed into an empty
\* entity list
callClaudeSwallowMalformed(truncatedText, o) ==
    IF o.kind = "APIError" THEN
        Throw("Claude API error (" \o o.status \o "): " \o o.message)
    ELSE IF Len(o.content) = 0 THEN
        Throw("Cannot read properties of undefined (reading 'type')")
    ELSE IF o.content[1].type # "text" THEN
        Throw("Unexpected response type from Claude")
    ELSE LET responseText == o.content[1].text
             parsed == Parsed[responseText]
         IN  Return([entities |-> IF parsed.threw THEN <<>> ELSE parsed.value,
                     raw_response |->
                         [model |-> MODEL,
                          input_length |-> Len(truncatedText),
                          output_text |-> responseText,
                          stop_reason |-> "end_turn"]])

\* callClaudeForExtraction from the point where messages.create settles with
\* outcome o: the ExtractionResponse, or the Error it throws
callClaudeForExtraction(truncatedText, o) ==
    IF o.kind = "APIError" THEN
        Throw("Claude API error (" \o o.status \o "): " \o o.message)
    ELSE IF Len(o.content) = 0 THEN
        Throw("Cannot read properties of undefined (reading 'type')")
    ELSE IF o.content[1].type # "text" THEN
        Throw("Unexpected response type from Claude")
    ELSE LET responseText == o.content[1].text
             parsed == Parsed[responseText]
         IN  IF parsed.threw THEN parsed
             ELSE Return([entities |-> parsed.value,
                          raw_response |->
                              [model |-> MODEL,
                               input_length |-> Len(truncatedText),
                               output_text |-> responseText,
                               stop_reason |-> "end_turn"]])

\* ------------------------------------------------------------------------
\* services/textExtractor.ts
\* ------------------------------------------------------------------------

SUPPORTED_EXTENSIONS == <<".pdf", ".docx">>

UpperCase == "ABCDEFGHIJKLMNOPQRSTUVWXYZ"
LowerCase == "abcdefghijklmnopqrstuvwxyz"

RECURSIVE IndexIn(_, _, _)
\* the position of character c in s at or after i, 0 when absent
IndexIn(s, c, i) ==
    IF i > Len(s) THEN 0 ELSE IF Ch(s, i) = c THEN i ELSE IndexIn(s, c, i + 1)

\* the lower-case letter of each upper-case letter
LowerOf ==
    [c \in {Ch(UpperCase, k) : k \in 1..Len(UpperCase)} |->
        Ch(LowerCase, IndexIn(UpperCase, c, 1))]

toLowerCase(s) ==
    LET lower[i \in 0..Len(s)] ==
            IF i = 0 THEN ""
            ELSE lower[i - 1]
                 \o (IF SubSeq(s, i, i) \in DOMAIN LowerOf
                     THEN LowerOf[SubSeq(s, i, i)]
                     ELSE SubSeq(s, i, i))
    IN  lower[Len(s)]

RECURSIVE lastIndexOf(_, _, _)
\* s.lastIndexOf(c) searched down from 1-based position i; -1 when absent
lastIndexOf(s, c, i) ==
    IF i = 0 THEN -1 ELSE IF Ch(s, i) = c THEN i - 1 ELSE lastIndexOf(s, c, i - 1)

\* name.toLowerCase().slice(name.lastIndexOf(".")); slice(-1) is the last
\* character
extensionOf(name) ==
    LET k == lastIndexOf(name, ".", Len(name))
    IN  IF k < 0 THEN SliceFrom(toLowerCase(name), Len(name) - 1)
        ELSE SliceFrom(toLowerCase(name), k)

isSupportedFile(filename) ==
    \E k \in DOMAIN SUPPORTED_EXTENSIONS :
        SUPPORTED_EXTENSIONS[k] = extensionOf(filename)

\* the parser extractTextFromFile awaits for a file name, "" for none
parserFor(originalName) ==
    CASE extensionOf(originalName) = ".pdf" -> "pdfParse"
      [] extensionOf(originalName) = ".docx" -> "mammoth"
      [] OTHER -> ""

unsupportedMessage(originalName) ==
    "Unsupported file type: " \o extensionOf(originalName)
    \o ". Supported types: .pdf, .docx"

\* ------------------------------------------------------------------------
\* services/database.ts
\* ------------------------------------------------------------------------

\* the row the table keeps for one inserted record (the server assigns id)
StoredEntity(entity, id, sourceDocumentName, rawJson) ==
    [id |-> id,
     full_name |-> entity.full_name, email |-> entity.email,
     phone_number |-> entity.phone_number, address |-> entity.address,
     organisation |-> entity.organisation, role_title |-> entity.role_title,
     comments |-> entity.comments,
     source_document_name |-> sourceDocumentName, raw_json |-> rawJson]

\* the rows a successful batch insert of `entities` returns, ids from firstId
insertedRows(entities, sourceDocumentName, rawJson, firstId) ==
    [k \in 1..Len(entities) |->
        StoredEntity(entities[k], firstId + k - 1, sourceDocumentName, rawJson)]

\* what the insert of saveEntities may do
InsertOutcomes ==
    {[error |-> FALSE, message |-> ""],
     [error |-> TRUE, message |-> "connection timeout"]}

\* ------------------------------------------------------------------------
\* routes/upload.ts: bounds and inputs
\* ------------------------------------------------------------------------

\* the most files of one upload
MaxFiles == 3

Requests == {1, 2}

\* the original name of the k-th file of an upload
FileNameAt(k) == IF k % 2 = 1 THEN "a.pdf" ELSE "B.DOCX"

\* the raw text a document parser may return
RawTexts == {"", " \n", "a", " a\n"}

\* what pdfParse / mammoth.extractRawText may do with a buffer
ParserOutcomes ==
    {[threw |-> TRUE, message |-> "Invalid document structure", text |-> ""]}
    \cup {[threw |-> FALSE, message |-> "", text |-> t] : t \in RawTexts}

\* the uploads of at most n files (original names)
Batches(n) == {[k \in 1..m |-> FileNameAt(k)] : m \in 0..n}

\* req.files as multer leaves it: the original name and the temporary path
Uploaded(r, names) ==
    [k \in 1..Len(names) |-> [originalname |-> names[k], path |-> <<r, k>>]]

NoExtraction ==
    [entities |-> <<>>,
     raw_response |-> [model |-> "", input_length |-> 0, output_text |-> "",
                       stop_reason |-> ""]]

NoResponse == [sent |-> 0, status |-> 0, success |-> FALSE, error |-> "",
               message |-> "", data |-> <<>>]

\* ------------------------------------------------------------------------
\* services/claude.ts on its own: the validator and the truncation, applied
\* to catalogues of response texts and of document texts
\* ------------------------------------------------------------------------

\* the most elements of the entity array of a response
MaxElems == 2

\* s repeated n times
RECURSIVE Rep(_, _)
Rep(s, n) ==
    IF n = 0 THEN ""
    ELSE LET h == Rep(s, n \div 2)
         IN  h \o h \o (IF n % 2 = 1 THEN s ELSE "")

\* the JSON texts of the elements the model may put in the entity array
ElementTexts ==
    << "null",
       "\"x\"",
       "7",
       "true",
       "{}",
       "{\"full_name\":\"Jane Doe\",\"email\":\" jane@x.com \"}",
       "{\"full_name\":\"  \",\"email\":\"\",\"role_title\":5,\"comments\":false,\"phone_number\":null}",
       "{\"full_name\":\"Jane Doe\",\"extra\":\"z\",\"organisation\":\"ACME  Ltd\"}",
       "{\"full_name\":[],\"comments\":[\" a\"]}" >>

\* the lists of at most n elements, as positions in ElementTexts
RECURSIVE ElementLists(_)
ElementLists(n) ==
    IF n = 0 THEN {<<>>}
    ELSE ElementLists(n - 1)
         \cup {Append(l, e) : l \in {x \in ElementLists(n - 1) : Len(x) = n - 1},
                              e \in DOMAIN ElementTexts}

RECURSIVE JoinTexts(_, _)
JoinTexts(els, i) ==
    IF i > Len(els) THEN ""
    ELSE ElementTexts[els[i]] \o (IF i < Len(els) THEN "," ELSE "")
         \o JoinTexts(els, i + 1)

\* the response text that holds the elements els, as the envelope or as a
\* bare array
Render(shape, els) ==
    IF shape = "envelope" THEN "{\"entities\":[" \o JoinTexts(els, 1) \o "]}"
    ELSE "[" \o JoinTexts(els, 1) \o "]"

\* valid JSON that is neither the envelope nor an array
WrongShapeTexts ==
    { "7", "0", "\"abc\"", "\"\"", "true", "false", "null", "{}",
      "{\"people\":[]}", "{\"entities\":{}}", "{\"entities\":\"x\"}",
      "{\"entities\":null}", " {\"entities\":7}\n" }

\* texts that are not JSON, after the fences are stripped: prose, a missing
\* bracket, a trailing comma, single quotes, JSON followed by prose, nothing,
\* and prose of 200, 201 and 450 characters
InvalidTexts ==
    { "not json at all",
      "{\"entities\":[}",
      "{\"entities\":[],}",
      "{'entities':[]}",
      "{\"entities\":[]} as requested",
      "",
      BQ \o BQ \o BQ \o "json\nnot json\n" \o BQ \o BQ \o BQ,
      Rep("x", 200),
      Rep("x", 200) \o "y",
      "{\"entities\":[" \o Rep("?", 450) }

\* a response as the model may fence it: white space, the opening fence with
\* its language tag, white space, the JSON, white space, the closing fence
Fences ==
    << [open |-> BQ \o BQ \o BQ \o "json\n", close |-> "\n" \o BQ \o BQ \o BQ],
       [open |-> BQ \o BQ \o BQ \o "\n", close |-> "\n" \o BQ \o BQ \o BQ],
       [open |-> " \n" \o BQ \o BQ \o BQ \o "json", close |-> BQ \o BQ \o BQ \o "\n "],
       [open |-> BQ \o BQ \o BQ \o "js\n", close |-> "\n" \o BQ \o BQ \o BQ],
       [open |-> BQ \o BQ \o BQ \o "JSON\n", close |-> "\n" \o BQ \o BQ \o BQ] >>

Wrap(f, text) == Fences[f].open \o text \o Fences[f].close

\* JSON.stringify of a string without quotes, backslashes or control
\* characters, or of null
StringifyField(value) ==
    IF value.t = "null" THEN "null" ELSE "\"" \o value.s \o "\""

StringifyEntity(e) ==
    "{\"full_name\":" \o StringifyField(e.full_name)
    \o ",\"email\":" \o StringifyField(e.email)
    \o ",\"phone_number\":" \o StringifyField(e.phone_number)
    \o ",\"address\":" \o StringifyField(e.address)
    \o ",\"organisation\":" \o StringifyField(e.organisation)
    \o ",\"role_title\":" \o StringifyField(e.role_title)
    \o ",\"comments\":" \o StringifyField(e.comments) \o "}"

RECURSIVE StringifyEntities(_, _)
StringifyEntities(entities, i) ==
    IF i > Len(entities) THEN ""
    ELSE StringifyEntity(entities[i]) \o (IF i < Len(entities) THEN "," ELSE "")
         \o StringifyEntities(entities, i + 1)

\* JSON.stringify({entities})
StringifyEnvelope(entities) ==
    "{\"entities\":[" \o StringifyEntities(entities, 1) \o "]}"

TruncationMarker == "\n\n[Document truncated...]"

\* the document texts: short ones, one that ends with the words of the
\* marker, and texts of maxTextLength - 1 .. maxTextLength + 2 characters
DocumentTexts ==
    { "a", "Jane Doe\njane@x.com",
      "see appendix" \o TruncationMarker,
      Rep("a", maxTextLength - 1),
      Rep("a", maxTextLength - 1) \o "b",
      Rep("a", maxTextLength - 1) \o "bc",
      Rep("a", maxTextLength - 1) \o "bcd",
      Rep("ab", maxTextLength) }

\* the last line of EXTRACTION_USER_PROMPT
EXTRACTION_USER_PROMPT == "---\nDOCUMENT TEXT TO PROCESS:\n"

buildExtractionPrompt(documentText) == EXTRACTION_USER_PROMPT \o documentText

NoUnit ==
    [pc |-> "idle", kind |-> "", els |-> <<>>, responseText |-> "",
     parsed |-> <<>>, fence |-> 0, parsedFenced |-> <<>>, reparsed |-> <<>>,
     documentText |-> "", truncatedText |-> "", content |-> "",
     originalName |-> "", mimeType |-> "", parser |-> "", thrown |-> <<>>]

\* a response text handed to parseExtractionResponse
GivenResponse(kind, els, text) ==
    [NoUnit EXCEPT !.pc = "response", !.kind = kind, !.els = els,
                   !.responseText = text]

\* a document text handed to callClaudeForExtraction
GivenDocument(text) ==
    [NoUnit EXCEPT !.pc = "document", !.kind = "document", !.documentText = text]

\* the original names extractTextFromFile may be called with
OriginalNames ==
    {"a.pdf", "B.DOCX", "cv.final.Pdf", "notes.txt", "old.doc", "scan.pdf.zip",
     "README"}

\* the MIME types extractTextFromBuffer may be called with
MimeTypes ==
    {"application/pdf",
     "application/vnd.openxmlformats-officedocument.wordprocessingml.document",
     "application/msword", "text/plain", "image/png", ""}

\* a file, read into a buffer, at the switch of extractTextFromFile
GivenFile(originalName) ==
    [NoUnit EXCEPT !.pc = "file", !.kind = "file", !.originalName = originalName]

\* a buffer handed to extractTextFromBuffer
GivenBuffer(mimeType) ==
    [NoUnit EXCEPT !.pc = "buffer", !.kind = "buffer", !.mimeType = mimeType]

\* the parser extractTextFromBuffer awaits for a MIME type, "" for none
parserForMime(mimeType) ==
    CASE mimeType = "application/pdf" -> "pdfParse"
      [] mimeType = "application/vnd.openxmlformats-officedocument.wordprocessingml.document"
            -> "mammoth"
      [] OTHER -> ""

unsupportedMimeMessage(mimeType) == "Unsupported MIME type: " \o mimeType

\* let supabase = null, before the first call of getClient
NoClient == [created |-> FALSE, by |-> 0, file |-> 0]

\* getClient called while request r processes file i: the client there is,
\* or a new one, which the module variable keeps
getClient(client, r, i) ==
    IF client.created THEN client ELSE [created |-> TRUE, by |-> r, file |-> i]

\* the most DELETE requests in flight
MaxDeleters == 2

Deleters == 1..MaxDeleters

NoReply == [sent |-> 0, status |-> 0, success |-> FALSE, text |-> ""]

\* no DELETE request has arrived
IdleDelete == [pc |-> "idle", id |-> "", accesses |-> 0, res |-> NoReply]

NoDeletes == [d \in Deleters |-> IdleDelete]

\* EntitiesPage before it is mounted: the initial values of useState
NoPage ==
    [mounted |-> FALSE, page |-> 1, search |-> "", entities |-> <<>>,
     total |-> 0, loading |-> TRUE, calls |-> <<>>, deletes |-> <<>>,
     deleted |-> {}]

\* ------------------------------------------------------------------------
\* State
\* ------------------------------------------------------------------------

VARIABLES
    req,      \* req[r]: the handler of request r: its position pc, req.files,
              \* results, the loop positions i (files) and c (cleanup), the
              \* locals that live across an await, the response res, whether
              \* cleanupFiles has warned, and the history log of its calls
    table,    \* the rows of extracted_entities, in insertion order
    nextId,   \* the next id the table assigns
    unit,     \* services/claude.ts called on its own: the text given, and
              \* what parseExtractionResponse and the truncation made of it
    supabase, \* the module variable of services/database.ts: the client
              \* getClient made, and (for the history) the call that made it
    del,      \* del[d]: the handler of DELETE request d
    ui        \* the state of EntitiesPage, its calls in flight, and the rows
              \* the server has deleted for it

vars == <<req, table, nextId, unit, supabase, del, ui>>

\* ------------------------------------------------------------------------
\* routes/upload.ts: the handler, as operators on the record of one request
\* ------------------------------------------------------------------------

emit(q, op, file, data) ==
    [q EXCEPT !.log = Append(@, [op |-> op, file |-> file, data |-> data])]

\* failed that leaves the message out
failedWithoutMessage(filename, message) ==
    [success |-> FALSE, filename |-> filename, entities_count |-> 0,
     entities |-> <<>>, error |-> <<>>]

failed(filename, message) ==
    [success |-> FALSE, filename |-> filename, entities_count |-> 0,
     entities |-> <<>>, error |-> <<message>>]

\* succeeded with a count that is one too many
succeededMiscount(filename, savedEntities) ==
    [success |-> TRUE, filename |-> filename,
     entities_count |-> Len(savedEntities) + 1, entities |-> savedEntities,
     error |-> <<>>]

succeeded(filename, savedEntities) ==
    [success |-> TRUE, filename |-> filename,
     entities_count |-> Len(savedEntities), entities |-> savedEntities,
     error |-> <<>>]

\* successCount that counts every result
successCountAll(results) == Len(results)

RECURSIVE successCount(_)
successCount(results) ==
    IF results = <<>> THEN 0
    ELSE (IF Head(results).success THEN 1 ELSE 0) + successCount(Tail(results))

RECURSIVE totalEntities(_)
totalEntities(results) ==
    IF results = <<>> THEN 0
    ELSE Head(results).entities_count + totalEntities(Tail(results))

\* startFile that also starts the file after i
startFileFanOut(q, i) ==
    LET q1 == emit([q EXCEPT !.pc = "readFile", !.i = i], "readFile", i, <<>>)
    IN  IF i < Len(q.files) THEN emit(q1, "readFile", i + 1, <<>>) ELSE q1

\* processFile(file) begins: extractTextFromFile awaits readFile
startFile(q, i) ==
    emit([q EXCEPT !.pc = "readFile", !.i = i], "readFile", i, <<>>)

\* cleanupFiles awaits unlink of file c
startUnlink(q, c) ==
    emit([q EXCEPT !.pc = "unlink", !.c = c], "unlink", c, <<>>)

\* respond that ends the handler without res.json
respondNever(q) == [q EXCEPT !.pc = "done"]

\* res.json of the batch summary
respond(q) ==
    emit([q EXCEPT
            !.pc = "done",
            !.res = [sent |-> q.res.sent + 1, status |-> 200,
                     success |-> successCount(q.results) > 0,
                     error |-> "",
                     message |-> "Processed " \o ToString(successCount(q.results))
                                 \o "/" \o ToString(Len(q.files))
                                 \o " files, extracted "
                                 \o ToString(totalEntities(q.results))
                                 \o " entities",
                     data |-> <<[files_processed |-> Len(q.files),
                                 files_successful |-> successCount(q.results),
                                 total_entities_extracted |->
                                     totalEntities(q.results),
                                 results |-> q.results]>>]],
         "respond", 0, <<>>)

\* res.status(400).json for a request without files
respondNoFiles(q) ==
    emit([q EXCEPT
            !.pc = "done",
            !.res = [sent |-> q.res.sent + 1, status |-> 400,
                     success |-> FALSE, error |-> "No files uploaded",
                     message |-> "", data |-> <<>>]],
         "respond", 0, <<>>)

\* record that drops the result of a failed file
recordDropFailed(q, result) ==
    LET q1 == emit([q EXCEPT !.results = IF result.success THEN Append(@, result)
                                         ELSE @,
                             !.truncatedText = "",
                             !.extraction = NoExtraction],
                   "result", q.i, <<>>)
    IN  IF q.i < Len(q.files) THEN startFile(q1, q.i + 1)
        ELSE startUnlink(q1, 1)

\* record that ends the loop at the first failed file
recordAbortOnFailure(q, result) ==
    LET q1 == emit([q EXCEPT !.results = Append(@, result),
                             !.truncatedText = "",
                             !.extraction = NoExtraction],
                   "result", q.i, <<>>)
    IN  IF q.i < Len(q.files) /\ result.success THEN startFile(q1, q.i + 1)
        ELSE startUnlink(q1, 1)

\* processFile returned `result`: results.push, then the loop goes on to the
\* next file, or ends and cleanupFiles begins
record(q, result) ==
    LET q1 == emit([q EXCEPT !.results = Append(@, result),
                             !.truncatedText = "",
                             !.extraction = NoExtraction],
                   "result", q.i, <<>>)
    IN  IF q.i < Len(q.files) THEN startFile(q1, q.i + 1)
        ELSE startUnlink(q1, 1)

\* afterUnlink that gives up the cleanup at the first failed removal
afterUnlinkStopOnFailure(q) ==
    IF q.c < Len(q.files) /\ ~q.warned THEN startUnlink(q, q.c + 1) ELSE respond(q)

\* the unlink of file c settled: the next one, or the response
afterUnlink(q) ==
    IF q.c < Len(q.files) THEN startUnlink(q, q.c + 1) ELSE respond(q)

\* readFile resolved: the switch on the extension
afterReadFile(q) ==
    LET name == q.files[q.i].originalname
    IN  IF parserFor(name) = "" THEN
            record(emit(q, "throw", q.i, <<"extension">>),
                   failed(name, unsupportedMessage(name)))
        ELSE emit([q EXCEPT !.pc = parserFor(name)], parserFor(name), q.i, <<>>)

\* afterExtractText without the blank check
afterExtractTextUnchecked(q, extractedText) ==
    emit([q EXCEPT !.pc = "messages.create",
                   !.truncatedText = truncate(extractedText)],
         "messages.create", q.i, <<>>)

\* extractTextFromFile returned extractedText: the blank check, then
\* callClaudeForExtraction up to its await of messages.create
afterExtractText(q, extractedText) ==
    LET name == q.files[q.i].originalname
    IN  IF extractedText = "" \/ Len(trim(extractedText)) = 0 THEN
            record(q, failed(name, "No text could be extracted from the file"))
        ELSE emit([q EXCEPT !.pc = "messages.create",
                            !.truncatedText = truncate(extractedText)],
                  "messages.create", q.i, <<>>)

\* afterExtraction that hands only the first entity to saveEntities
afterExtractionFirstOnly(q, out) ==
    LET name == q.files[q.i].originalname
        first == [out.value EXCEPT !.entities = <<Head(@)>>]
    IN  IF out.threw THEN record(q, failed(name, out.message))
        ELSE IF Len(out.value.entities) = 0 THEN record(q, succeeded(name, <<>>))
        ELSE emit([q EXCEPT !.pc = "insert", !.extraction = first],
                  "insert", q.i,
                  <<[entities |-> first.entities, sourceDocumentName |-> name,
                     rawJson |-> first.raw_response]>>)

\* afterExtraction that takes an empty entity list for a failure
afterExtractionEmptyFails(q, out) ==
    LET name == q.files[q.i].originalname
    IN  IF out.threw THEN record(q, failed(name, out.message))
        ELSE IF Len(out.value.entities) = 0 THEN
            record(q, failed(name, "No entities found"))
        ELSE emit([q EXCEPT !.pc = "insert", !.extraction = out.value],
                  "insert", q.i,
                  <<[entities |-> out.value.entities, sourceDocumentName |-> name,
                     rawJson |-> out.value.raw_response]>>)

\* afterExtraction that calls messages.create once more after a failure
afterExtractionRetry(q, out) ==
    LET name == q.files[q.i].originalname
        calls == {k \in DOMAIN q.log :
                     q.log[k].op = "messages.create" /\ q.log[k].file = q.i}
    IN  IF out.threw /\ Cardinality(calls) < 2 THEN
            emit(q, "messages.create", q.i, <<>>)
        ELSE IF out.threw THEN record(q, failed(name, out.message))
        ELSE IF Len(out.value.entities) = 0 THEN record(q, succeeded(name, <<>>))
        ELSE emit([q EXCEPT !.pc = "insert", !.extraction = out.value],
                  "insert", q.i,
                  <<[entities |-> out.value.entities, sourceDocumentName |-> name,
                     rawJson |-> out.value.raw_response]>>)

\* afterExtraction that calls saveEntities whatever the validator did
afterExtractionAlwaysInsert(q, out) ==
    LET name == q.files[q.i].originalname
        value == IF out.threw THEN NoExtraction
                 ELSE out.value
    IN  emit([q EXCEPT !.pc = "insert", !.extraction = value],
             "insert", q.i,
             <<[entities |-> value.entities, sourceDocumentName |-> name,
                rawJson |-> value.raw_response]>>)

\* callClaudeForExtraction settled with `out`: a throw is caught by
\* processFile, no entity is a success, otherwise saveEntities awaits insert
afterExtraction(q, out) ==
    LET name == q.files[q.i].originalname
    IN  IF out.threw THEN record(q, failed(name, out.message))
        ELSE IF Len(out.value.entities) = 0 THEN record(q, succeeded(name, <<>>))
        ELSE emit([q EXCEPT !.pc = "insert", !.extraction = out.value],
                  "insert", q.i,
                  <<[entities |-> out.value.entities, sourceDocumentName |-> name,
                     rawJson |-> out.value.raw_response]>>)

\* ------------------------------------------------------------------------
\* Actions: the handler runs from one await to the next
\* ------------------------------------------------------------------------

NewRequest(r, names) ==
    [pc |-> "received", files |-> Uploaded(r, names), results |-> <<>>,
     i |-> 0, c |-> 0, truncatedText |-> "", extraction |-> NoExtraction,
     res |-> NoResponse, warned |-> FALSE, log |-> <<>>]

\* no request has arrived
Idle == [NewRequest(0, <<>>) EXCEPT !.pc = "idle"]

\* one upload has arrived: its files are on disk and its handler is about to
\* run
Init ==
    /\ \E names \in Batches(MaxFiles) :
        req = [r \in Requests |-> IF r = 1 THEN NewRequest(r, names) ELSE Idle]
    /\ table = <<>>
    /\ nextId = 1
    /\ unit = NoUnit
    /\ supabase = NoClient
    /\ del = NoDeletes
    /\ ui = NoPage

\* RejectNoFiles without the return: the loop and the summary follow
RejectNoFilesFallThrough(r) ==
    /\ req[r].pc = "received"
    /\ Len(req[r].files) = 0
    /\ req' = [req EXCEPT ![r] = respond(respondNoFiles(@))]
    /\ UNCHANGED <<table, nextId, supabase>>

\* lines 65-73: no file
RejectNoFiles(r) ==
    /\ req[r].pc = "received"
    /\ Len(req[r].files) = 0
    /\ req' = [req EXCEPT ![r] = respondNoFiles(@)]
    /\ UNCHANGED <<table, nextId, supabase>>

\* lines 75-80: the loop starts with the first file
BeginBatch(r) ==
    /\ req[r].pc = "received"
    /\ Len(req[r].files) > 0
    /\ req' = [req EXCEPT ![r] = startFile(@, 1)]
    /\ UNCHANGED <<table, nextId, supabase>>

\* readFile settles
ReadFileReturn(r) ==
    /\ req[r].pc = "readFile"
    /\ \/ req' = [req EXCEPT ![r] = afterReadFile(@)]
       \/ req' = [req EXCEPT ![r] =
                    record(emit(@, "throw", @.i, <<"readFile">>),
                           failed(@.files[@.i].originalname,
                                  "ENOENT: no such file or directory"))]
    /\ UNCHANGED <<table, nextId, supabase>>

\* pdfParse settles (extractFromPDF)
PdfParseReturn(r) ==
    /\ req[r].pc = "pdfParse"
    /\ \E o \in ParserOutcomes :
        req' = [req EXCEPT ![r] =
                  IF o.threw
                  THEN record(emit(@, "throw", @.i, <<"parse">>),
                              failed(@.files[@.i].originalname,
                                     "Failed to parse PDF: " \o o.message))
                  ELSE afterExtractText(emit(@, "extracted", @.i, <<trim(o.text)>>),
                                        trim(o.text))]
    /\ UNCHANGED <<table, nextId, supabase>>

\* mammoth.extractRawText settles (extractFromDOCX)
MammothReturn(r) ==
    /\ req[r].pc = "mammoth"
    /\ \E o \in ParserOutcomes :
        req' = [req EXCEPT ![r] =
                  IF o.threw
                  THEN record(emit(@, "throw", @.i, <<"parse">>),
                              failed(@.files[@.i].originalname,
                                     "Failed to parse DOCX: " \o o.message))
                  ELSE afterExtractText(emit(@, "extracted", @.i, <<trim(o.text)>>),
                                        trim(o.text))]
    /\ UNCHANGED <<table, nextId, supabase>>

\* what the validator did with outcome o of messages.create, for the log
validatorEvent(q, o) ==
    IF o.kind = "APIError" \/ Len(o.content) = 0 \/ o.content[1].type # "text"
    THEN emit(emit(q, "llmFailed", q.i, <<>>), "throw", q.i, <<"llm">>)
    ELSE IF Parsed[o.content[1].text].threw
    THEN emit(emit(q, "rejected", q.i, <<>>), "throw", q.i, <<"validate">>)
    ELSE emit(q, "validated", q.i, <<Parsed[o.content[1].text].value>>)

\* anthropic.messages.create settles; when the entities go to saveEntities,
\* it calls getClient before it awaits the insert
MessagesCreateReturn(r) ==
    /\ req[r].pc = "messages.create"
    /\ \E o \in LlmOutcomes :
        req' = [req EXCEPT ![r] =
                  afterExtraction(validatorEvent(@, o),
                                  callClaudeForExtraction(@.truncatedText, o))]
    /\ supabase' = IF req'[r].pc = "insert"
                   THEN getClient(supabase, r, req[r].i)
                   ELSE supabase
    /\ UNCHANGED <<table, nextId>>

\* InsertReturn whose select returns every row of the table
InsertReturnWholeTable(r) ==
    /\ req[r].pc = "insert"
    /\ \E o \in InsertOutcomes :
        LET q == req[r]
            name == q.files[q.i].originalname
            data == insertedRows(q.extraction.entities, name,
                                 q.extraction.raw_response, nextId)
        IN  IF o.error THEN
                /\ req' = [req EXCEPT ![r] =
                             record(emit(emit(q, "insert.error", q.i, <<>>),
                                         "throw", q.i, <<"insert">>),
                                    failed(name, "Failed to save entities: "
                                                 \o o.message))]
                /\ UNCHANGED <<table, nextId, supabase>>
            ELSE
                /\ req' = [req EXCEPT ![r] =
                             record(emit(q, "insert.ok", q.i, <<table \o data>>),
                                    succeeded(name, table \o data))]
                /\ table' = table \o data
                /\ nextId' = nextId + Len(data)
                /\ UNCHANGED supabase

\* the insert of saveEntities settles: all the records are stored and
\* returned, or none is and error is set
InsertReturn(r) ==
    /\ req[r].pc = "insert"
    /\ \E o \in InsertOutcomes :
        LET q == req[r]
            name == q.files[q.i].originalname
            data == insertedRows(q.extraction.entities, name,
                                 q.extraction.raw_response, nextId)
        IN  IF o.error THEN
                /\ req' = [req EXCEPT ![r] =
                             record(emit(emit(q, "insert.error", q.i, <<>>),
                                         "throw", q.i, <<"insert">>),
                                    failed(name, "Failed to save entities: "
                                                 \o o.message))]
                /\ UNCHANGED <<table, nextId, supabase>>
            ELSE
                /\ req' = [req EXCEPT ![r] =
                             record(emit(q, "insert.ok", q.i, <<data>>),
                                    succeeded(name, data))]
                /\ table' = table \o data
                /\ nextId' = nextId + Len(data)
                /\ UNCHANGED supabase

\* unlink settles: the file is gone, or unlink threw and console.warn is
\* called
UnlinkReturn(r) ==
    /\ req[r].pc = "unlink"
    /\ \/ req' = [req EXCEPT ![r] = afterUnlink(@)]
       \/ req' = [req EXCEPT ![r] = afterUnlink([@ EXCEPT !.warned = TRUE])]
    /\ UNCHANGED <<table, nextId, supabase>>

Next ==
    /\ \E r \in Requests :
        \/ RejectNoFiles(r)
        \/ BeginBatch(r)
        \/ ReadFileReturn(r)
        \/ PdfParseReturn(r)
        \/ MammothReturn(r)
        \/ MessagesCreateReturn(r)
        \/ InsertReturn(r)
        \/ UnlinkReturn(r)
    /\ UNCHANGED <<unit, del, ui>>

Spec == Init /\ [][Next]_vars

\* a step of the handler of request r that waits for no collaborator
Runs(r) == (RejectNoFiles(r) \/ BeginBatch(r)) /\ UNCHANGED <<unit, del, ui>>

\* an awaited call of request r settles
Settles(r) ==
    /\ \/ ReadFileReturn(r)
       \/ PdfParseReturn(r)
       \/ MammothReturn(r)
       \/ MessagesCreateReturn(r)
       \/ InsertReturn(r)
       \/ UnlinkReturn(r)
    /\ UNCHANGED <<unit, del, ui>>

\* the handler runs when it can, and every awaited call returns or throws
Fairness == \A r \in Requests : WF_vars(Runs(r)) /\ WF_vars(Settles(r))

\* the most files of one upload where the fair behaviours are examined
MaxLiveFiles == 2

\* Init with an upload of at most MaxLiveFiles files
InitLive ==
    /\ \E names \in Batches(MaxLiveFiles) :
        req = [r \in Requests |-> IF r = 1 THEN NewRequest(r, names) ELSE Idle]
    /\ table = <<>>
    /\ nextId = 1
    /\ unit = NoUnit
    /\ supabase = NoClient
    /\ del = NoDeletes
    /\ ui = NoPage

SpecLive == InitLive /\ [][Next]_vars /\ Fairness

\* the most files of the first of two uploads that run together
MaxConcurrentFiles == 1

\* two uploads have arrived and their handlers are about to run: the first
\* with at most MaxConcurrentFiles files, the second with one DOCX
InitConcurrent ==
    /\ \E names \in Batches(MaxConcurrentFiles) :
        req = [r \in Requests |->
                 IF r = 1 THEN NewRequest(1, names)
                 ELSE NewRequest(2, <<FileNameAt(2)>>)]
    /\ table = <<>>
    /\ nextId = 1
    /\ unit = NoUnit
    /\ supabase = NoClient
    /\ del = NoDeletes
    /\ ui = NoPage

SpecConcurrent == InitConcurrent /\ [][Next]_vars

\* router.post and processFile on their own: q2 is what the handler in q
\* becomes when the call it awaits settles, the storage numbering the rows it
\* returns from firstId
AloneStep(q, q2, firstId) ==
    LET name == q.files[q.i].originalname
        data == insertedRows(q.extraction.entities, name,
                             q.extraction.raw_response, firstId)
    IN  CASE q.pc = "received" ->
                q2 = IF Len(q.files) = 0 THEN respondNoFiles(q) ELSE startFile(q, 1)
          [] q.pc = "readFile" ->
                \/ q2 = afterReadFile(q)
                \/ q2 = record(emit(q, "throw", q.i, <<"readFile">>),
                               failed(name, "ENOENT: no such file or directory"))
          [] q.pc \in {"pdfParse", "mammoth"} ->
                \E o \in ParserOutcomes :
                    q2 = IF o.threw
                         THEN record(emit(q, "throw", q.i, <<"parse">>),
                                     failed(name,
                                            (IF q.pc = "pdfParse"
                                             THEN "Failed to parse PDF: "
                                             ELSE "Failed to parse DOCX: ")
                                            \o o.message))
                         ELSE afterExtractText(
                                  emit(q, "extracted", q.i, <<trim(o.text)>>),
                                  trim(o.text))
          [] q.pc = "messages.create" ->
                \E o \in LlmOutcomes :
                    q2 = afterExtraction(validatorEvent(q, o),
                                         callClaudeForExtraction(q.truncatedText, o))
          [] q.pc = "insert" ->
                \E o \in InsertOutcomes :
                    q2 = IF o.error
                         THEN record(emit(emit(q, "insert.error", q.i, <<>>),
                                          "throw", q.i, <<"insert">>),
                                     failed(name, "Failed to save entities: "
                                                  \o o.message))
                         ELSE record(emit(q, "insert.ok", q.i, <<data>>),
                                     succeeded(name, data))
          [] q.pc = "unlink" ->
                \/ q2 = afterUnlink(q)
                \/ q2 = afterUnlink([q EXCEPT !.warned = TRUE])
          [] OTHER -> FALSE

\* ------------------------------------------------------------------------
\* services/claude.ts on its own: the specification
\* ------------------------------------------------------------------------

UnitInputs ==
    {GivenResponse("array", els, Render(shape, els)) :
        els \in ElementLists(MaxElems), shape \in {"envelope", "bare"}}
    \cup {GivenResponse("wrongShape", <<>>, t) : t \in WrongShapeTexts}
    \cup {GivenResponse("invalid", <<>>, t) : t \in InvalidTexts}
    \cup {GivenDocument(t) : t \in DocumentTexts}
    \cup {GivenFile(n) : n \in OriginalNames}
    \cup {GivenBuffer(m) : m \in MimeTypes}

InitUnits ==
    /\ req = [r \in Requests |-> Idle]
    /\ table = <<>>
    /\ nextId = 1
    /\ unit \in UnitInputs
    /\ supabase = NoClient
    /\ del = NoDeletes
    /\ ui = NoPage

\* parseExtractionResponse(responseText)
ParseResponse ==
    /\ unit.pc = "response"
    /\ unit' = [unit EXCEPT
                  !.pc = "parsed",
                  !.parsed = <<parseExtractionResponse(unit.responseText)>>]
    /\ UNCHANGED <<req, table, nextId, supabase, del, ui>>

\* parseExtractionResponse of the same text inside a fenced code block
ParseFenced ==
    /\ unit.pc = "parsed"
    /\ \E f \in DOMAIN Fences :
        unit' = [unit EXCEPT
                   !.pc = "fenced",
                   !.fence = f,
                   !.parsedFenced =
                       <<parseExtractionResponse(Wrap(f, unit.responseText))>>]
    /\ UNCHANGED <<req, table, nextId, supabase, del, ui>>

\* parseExtractionResponse of its own output, serialized as the envelope
ParseAgain ==
    /\ unit.pc = "parsed"
    /\ ~unit.parsed[1].threw
    /\ unit' = [unit EXCEPT
                  !.pc = "reparsed",
                  !.reparsed = <<parseExtractionResponse(
                                     StringifyEnvelope(unit.parsed[1].value))>>]
    /\ UNCHANGED <<req, table, nextId, supabase, del, ui>>

\* callClaudeForExtraction(documentText) up to the content of the request
BuildRequest ==
    /\ unit.pc = "document"
    /\ unit' = [unit EXCEPT
                  !.pc = "requested",
                  !.truncatedText = truncate(unit.documentText),
                  !.content = buildExtractionPrompt(truncate(unit.documentText))]
    /\ UNCHANGED <<req, table, nextId, supabase, del, ui>>

\* the switch of extractTextFromFile: a parser is called, or it throws
DispatchByName ==
    /\ unit.pc = "file"
    /\ unit' = [unit EXCEPT
                  !.pc = "dispatched",
                  !.parser = parserFor(unit.originalName),
                  !.thrown = IF parserFor(unit.originalName) = ""
                             THEN <<unsupportedMessage(unit.originalName)>>
                             ELSE <<>>]
    /\ UNCHANGED <<req, table, nextId, supabase, del, ui>>

\* the switch of extractTextFromBuffer: a parser is called, or it throws
DispatchByMime ==
    /\ unit.pc = "buffer"
    /\ unit' = [unit EXCEPT
                  !.pc = "dispatched",
                  !.parser = parserForMime(unit.mimeType),
                  !.thrown = IF parserForMime(unit.mimeType) = ""
                             THEN <<unsupportedMimeMessage(unit.mimeType)>>
                             ELSE <<>>]
    /\ UNCHANGED <<req, table, nextId, supabase, del, ui>>

NextUnits ==
    \/ ParseResponse
    \/ ParseFenced
    \/ ParseAgain
    \/ BuildRequest
    \/ DispatchByName
    \/ DispatchByMime

SpecUnits == InitUnits /\ [][NextUnits]_vars

\* ------------------------------------------------------------------------
\* routes/entities.ts: DELETE /api/entities/:id
\* ------------------------------------------------------------------------

HexDigits == "0123456789abcdefABCDEF"

\* /^[0-9a-f]{8}-[0-9a-f]{4}-[0-9a-f]{4}-[0-9a-f]{4}-[0-9a-f]{12}$/i
uuidRegex(id) ==
    /\ Len(id) = 36
    /\ \A k \in 1..36 :
          IF k \in {9, 14, 19, 24} THEN SubSeq(id, k, k) = "-"
          ELSE \E j \in 1..Len(HexDigits) :
                   SubSeq(HexDigits, j, j) = SubSeq(id, k, k)

\* the id column (uuid) of the row the table numbers n
Uuid(n) == "a0000000-0000-4000-8000-00000000000" \o ToString(n)

\* .eq("id", id): the uuid column compares without regard to case
eqId(row, id) == Uuid(row.id) = toLowerCase(id)

\* the ids DELETE requests come with: of stored rows (one in capitals), of no
\* row, and not shaped as a UUID
DeleteIds ==
    {Uuid(1), "A0000000-0000-4000-8000-000000000001", Uuid(2), Uuid(7),
     "1", "g0000000-0000-4000-8000-000000000001"}

\* the rows an earlier upload of one PDF has stored: the two entities of one
\* response, as validateEntities returned them
StoredRows ==
    insertedRows(<<[createEmptyEntity EXCEPT !.full_name = JStr("Jane Doe"),
                                             !.email = JStr("jane@x.com")],
                   createEmptyEntity>>,
                 FileNameAt(1),
                 [model |-> MODEL, input_length |-> 1,
                  output_text |-> "{\"entities\":[{\"full_name\":\"Jane Doe\",\"email\":\" jane@x.com \"},\"x\"]}",
                  stop_reason |-> "end_turn"],
                 1)

\* what a query of the storage may do
QueryOutcomes ==
    {[error |-> FALSE, message |-> ""],
     [error |-> TRUE, message |-> "connection timeout"]}

\* res.status(status).json(...) of the DELETE handler
reply(e, status, success, text) ==
    [e EXCEPT !.pc = "done",
              !.res = [sent |-> e.res.sent + 1, status |-> status,
                       success |-> success, text |-> text]]

\* DELETE requests have arrived for a table an upload has filled
InitDelete ==
    /\ req = [r \in Requests |-> Idle]
    /\ table = StoredRows
    /\ nextId = Len(StoredRows) + 1
    /\ unit = NoUnit
    /\ supabase = getClient(NoClient, 1, 1)
    /\ del \in [Deleters -> {[IdleDelete EXCEPT !.pc = "received", !.id = id] :
                                id \in DeleteIds}]
    /\ ui = NoPage

\* lines 219-234: the test of the id, then getEntityById is awaited
DeleteReceived(d) ==
    /\ del[d].pc = "received"
    /\ del' = [del EXCEPT ![d] =
                 IF ~uuidRegex(@.id)
                 THEN reply(@, 400, FALSE, "Invalid entity ID format")
                 ELSE [@ EXCEPT !.pc = "getEntityById", !.accesses = @ + 1]]
    /\ UNCHANGED <<req, table, nextId, unit, supabase, ui>>

\* getEntityById settles: the row, null (PGRST116), or it throws; for a row,
\* deleteEntity is awaited
GetEntityByIdReturn(d) ==
    /\ del[d].pc = "getEntityById"
    /\ \E o \in QueryOutcomes :
        del' = [del EXCEPT ![d] =
                  IF o.error
                  THEN reply(@, 500, FALSE, "Failed to fetch entity: " \o o.message)
                  ELSE IF \A k \in DOMAIN table : ~eqId(table[k], @.id)
                  THEN reply(@, 404, FALSE, "Entity not found")
                  ELSE [@ EXCEPT !.pc = "deleteEntity", !.accesses = @ + 1]]
    /\ UNCHANGED <<req, table, nextId, unit, supabase, ui>>

\* deleteEntity settles: the rows with the id are gone (there may be none),
\* or it throws
DeleteEntityReturn(d) ==
    /\ del[d].pc = "deleteEntity"
    /\ \E o \in QueryOutcomes :
        IF o.error THEN
            /\ del' = [del EXCEPT ![d] =
                         reply(@, 500, FALSE,
                               "Failed to delete entity: " \o o.message)]
            /\ UNCHANGED table
        ELSE
            /\ del' = [del EXCEPT ![d] =
                         reply(@, 200, TRUE, "Entity deleted successfully")]
            /\ table' = SelectSeq(table, LAMBDA row : ~eqId(row, del[d].id))
    /\ UNCHANGED <<req, nextId, unit, supabase, ui>>

NextDelete ==
    \E d \in Deleters :
        \/ DeleteReceived(d)
        \/ GetEntityByIdReturn(d)
        \/ DeleteEntityReturn(d)

SpecDelete == InitDelete /\ [][NextDelete]_vars

\* ------------------------------------------------------------------------
\* pages/EntitiesPage.tsx (with GET and DELETE /api/entities behind it)
\* ------------------------------------------------------------------------

limit == 25

\* the most calls of getEntities, and of deleteEntity, the page makes
MaxFetches == 3
MaxDeletes == 1

\* the rows the server holds when the page is opened
ServerRows == 30

\* what the user types into the search box
Searches == {"", "a", "zz"}

\* whether row n is found by a search
Matches(n, search) ==
    \/ search = ""
    \/ search = "a" /\ n % 2 = 0

\* the rows the server finds for a search, in its order
Remaining(search, deleted) ==
    SelectSeq([n \in 1..ServerRows |-> n],
              LAMBDA n : Matches(n, search) /\ n \notin deleted)

\* response.data of GET /api/entities?page&limit&search
ListFor(page, search, deleted) ==
    LET all == Remaining(search, deleted)
        from == (page - 1) * limit + 1
        to == IF page * limit < Len(all) THEN page * limit ELSE Len(all)
    IN  [entities |-> IF from > to THEN <<>> ELSE SubSeq(all, from, to),
         total |-> Len(all)]

\* Math.ceil(total / limit)
totalPages(total) == (total + limit - 1) \div limit

\* what a call of the API may do: a body with success true, a body with
\* success false, or fetch rejects
ApiOutcomes == {"ok", "unsuccessful", "rejected"}

\* fetchEntities of the render with (page, search), up to its await
fetchEntities(u, page, search) ==
    [u EXCEPT !.loading = TRUE,
              !.calls = Append(@, [page |-> page, search |-> search,
                                   pending |-> TRUE, outcome |-> "",
                                   data |-> [entities |-> <<>>, total |-> 0]])]

\* a render with a new (page, search): useEffect runs the new fetchEntities
rerender(u, page, search) ==
    fetchEntities([u EXCEPT !.page = page, !.search = search], page, search)

\* the page is opened: the rows are on the server, nothing is mounted
InitPage ==
    /\ req = [r \in Requests |-> Idle]
    /\ table = <<>>
    /\ nextId = 1
    /\ unit = NoUnit
    /\ supabase = NoClient
    /\ del = NoDeletes
    /\ ui = NoPage

\* the first render: useEffect calls fetchEntities
Mount ==
    /\ ~ui.mounted
    /\ ui' = fetchEntities([ui EXCEPT !.mounted = TRUE], ui.page, ui.search)
    /\ UNCHANGED <<req, table, nextId, unit, supabase, del>>

\* handleSearch: setSearch(value), setPage(1)
HandleSearch ==
    /\ ui.mounted
    /\ Len(ui.calls) < MaxFetches
    /\ \E value \in Searches :
        /\ <<1, value>> # <<ui.page, ui.search>>
        /\ ui' = rerender(ui, 1, value)
    /\ UNCHANGED <<req, table, nextId, unit, supabase, del>>

\* the Previous button: setPage(p => p - 1)
PreviousPage ==
    /\ ui.mounted
    /\ Len(ui.calls) < MaxFetches
    /\ totalPages(ui.total) > 1
    /\ ui.page > 1
    /\ ui' = rerender(ui, ui.page - 1, ui.search)
    /\ UNCHANGED <<req, table, nextId, unit, supabase, del>>

\* the Next button: setPage(p => p + 1)
NextPage ==
    /\ ui.mounted
    /\ Len(ui.calls) < MaxFetches
    /\ totalPages(ui.total) > 1
    /\ ui.page < totalPages(ui.total)
    /\ ui' = rerender(ui, ui.page + 1, ui.search)
    /\ UNCHANGED <<req, table, nextId, unit, supabase, del>>

\* a call of getEntities settles: lines 28-37
GetEntitiesReturn ==
    /\ \E k \in DOMAIN ui.calls :
        /\ ui.calls[k].pending
        /\ \E o \in ApiOutcomes :
            LET data == ListFor(ui.calls[k].page, ui.calls[k].search, ui.deleted)
                settled == [ui EXCEPT
                              !.loading = FALSE,
                              !.calls[k].pending = FALSE,
                              !.calls[k].outcome = o,
                              !.calls[k].data =
                                  IF o = "ok" THEN data ELSE @]
            IN  ui' = IF o = "ok"
                      THEN [settled EXCEPT !.entities = data.entities,
                                           !.total = data.total]
                      ELSE settled
    /\ UNCHANGED <<req, table, nextId, unit, supabase, del>>

\* handleDelete of a row on display, confirmed: deleteEntity is awaited
HandleDelete ==
    /\ ui.mounted
    /\ ~ui.loading
    /\ Len(ui.deletes) < MaxDeletes
    /\ \E k \in DOMAIN ui.entities :
        /\ k \in {1, Len(ui.entities)}
        /\ ui' = [ui EXCEPT !.deletes =
                     Append(@, [id |-> ui.entities[k], page |-> ui.page,
                                search |-> ui.search, pending |-> TRUE])]
    /\ UNCHANGED <<req, table, nextId, unit, supabase, del>>

\* deleteEntity settles: on success, fetchEntities of the render the click
\* was made in
DeleteReturn ==
    /\ \E j \in DOMAIN ui.deletes :
        /\ ui.deletes[j].pending
        /\ \E o \in ApiOutcomes :
            LET d == ui.deletes[j]
                settled == [ui EXCEPT !.deletes[j].pending = FALSE]
            IN  IF o = "ok" /\ d.id \notin ui.deleted
                THEN /\ Len(ui.calls) < MaxFetches
                     /\ ui' = fetchEntities(
                                  [settled EXCEPT !.deleted = @ \cup {d.id}],
                                  d.page, d.search)
                ELSE ui' = settled
    /\ UNCHANGED <<req, table, nextId, unit, supabase, del>>

NextPageActions ==
    \/ Mount
    \/ HandleSearch
    \/ PreviousPage
    \/ NextPage
    \/ GetEntitiesReturn
    \/ HandleDelete
    \/ DeleteReturn

SpecPage == InitPage /\ [][NextPageActions]_vars

\* ------------------------------------------------------------------------
\* Reading the history of a request
\* ------------------------------------------------------------------------

\* sub occurs in s
Contains(s, sub) ==
    \E a \in 1..(Len(s) - Len(sub) + 1) : SubSeq(s, a, a + Len(sub) - 1) = sub

\* the positions of the log of q where `op` happened for file i
Ev(q, op, i) == {k \in DOMAIN q.log : q.log[k].op = op /\ q.log[k].file = i}

Calls(q, op, i) == Cardinality(Ev(q, op, i))

\* the PerFileResult of file i has been pushed
Recorded(q, i) == i <= Len(q.results)

\* a failed PerFileResult: no entity, and a message
IsFailure(result) ==
    /\ ~result.success
    /\ result.entities_count = 0
    /\ result.entities = <<>>
    /\ Len(result.error) = 1
    /\ result.error[1] # ""

\* every row of `rows` is in the table
Persisted(rows) ==
    \A k \in DOMAIN rows : \E t \in DOMAIN table : table[t] = rows[k]

\* the response of q carries a batch summary
Summarised(q) == q.res.sent > 0 /\ q.res.status = 200

\* ------------------------------------------------------------------------
\* Claims
\* ------------------------------------------------------------------------

\* C1: a batch of n >= 1 files yields exactly n PerFileResult entries, the
\* i-th with the name of the i-th submitted file, whatever the outcomes: the
\* results pushed so far name the files in order, and the summary sent holds
\* one entry per file.
C1_OneResultPerFile ==
    \A r \in Requests :
        LET q == req[r] IN
        /\ Len(q.results) <= Len(q.files)
        /\ \A i \in DOMAIN q.results :
              q.results[i].filename = q.files[i].originalname
        /\ q.pc \in {"unlink", "done"} /\ Len(q.files) >= 1 =>
              Len(q.results) = Len(q.files)
        /\ Summarised(q) =>
              /\ Len(q.files) >= 1
              /\ Len(q.res.data[1].results) = Len(q.files)
              /\ \A i \in DOMAIN q.files :
                    q.res.data[1].results[i].filename = q.files[i].originalname

\* a summary of three files: one success, one blank text, one thrown error
C1_Witness ==
    \E r \in Requests :
        LET q == req[r] IN
        /\ Summarised(q)
        /\ Len(q.files) = 3
        /\ \E i, j, k \in DOMAIN q.results :
              /\ q.results[i].success
              /\ q.results[j].error = <<"No text could be extracted from the file">>
              /\ Ev(q, "throw", k) # {}

\* the result of file j is what its own collaborators returned
NormalResult(q, j) ==
    LET name == q.files[j].originalname IN
    /\ \A k \in Ev(q, "insert.ok", j) :
          /\ q.results[j] = succeeded(name, q.log[k].data[1])
          /\ Persisted(q.log[k].data[1])
    /\ \A k \in Ev(q, "validated", j) :
          q.log[k].data[1] = <<>> => q.results[j] = succeeded(name, <<>>)
    /\ \A k \in Ev(q, "throw", j) : IsFailure(q.results[j])

\* C2: an exception thrown at any stage for file i becomes the failed
\* PerFileResult of file i, with a message; the next file is started all the
\* same, and every later file gets the result its own stages give (stored
\* rows included).
C2_ThrowIsolated ==
    \A r \in Requests :
        LET q == req[r] IN
        \A i \in DOMAIN q.files :
            Ev(q, "throw", i) # {} =>
                /\ Recorded(q, i)
                /\ IsFailure(q.results[i])
                /\ i < Len(q.files) => Calls(q, "readFile", i + 1) = 1
                /\ \A j \in (i + 1)..Len(q.results) : NormalResult(q, j)

\* three files, the extraction of the second throws, the first and the third
\* are persisted
C2_Witness ==
    \E r \in Requests :
        LET q == req[r] IN
        /\ Summarised(q)
        /\ Len(q.files) = 3
        /\ \E k \in Ev(q, "throw", 2) : q.log[k].data = <<"parse">>
        /\ \A j \in {1, 3} :
              /\ q.results[j].success
              /\ q.results[j].entities_count > 0
              /\ Persisted(q.results[j].entities)

\* C3: a file whose model output the validator rejects has a failed
\* PerFileResult with a message, never a success with zero entities, and no
\* insert is made for it.
C3_RejectedIsFailure ==
    \A r \in Requests :
        LET q == req[r] IN
        \A k \in DOMAIN q.log :
            q.log[k].op = "rejected" =>
                LET i == q.log[k].file IN
                /\ Recorded(q, i)
                /\ IsFailure(q.results[i])
                /\ Calls(q, "insert", i) = 0

\* one batch with output that is not JSON and output of the wrong shape
C3_Witness ==
    \E r \in Requests :
        LET q == req[r] IN
        /\ Ev(q, "rejected", 1) # {} /\ Ev(q, "rejected", 2) # {}
        /\ Recorded(q, 2)
        /\ q.results[1].error = <<"Claude response missing 'entities' array">>
        /\ q.results[2].error =
              <<"Claude returned invalid JSON. Response: not json at all">>
        /\ table = <<>>

\* C4 as stated: in every PerFileResult the count, the length of the entities
\* list, the number of rows the insert returned and the length of the list
\* the validator returned are equal.
C4_Original ==
    \A r \in Requests :
        LET q == req[r] IN
        \A i \in DOMAIN q.results :
            /\ q.results[i].entities_count = Len(q.results[i].entities)
            /\ \A k \in Ev(q, "insert.ok", i) :
                  q.results[i].entities_count = Len(q.log[k].data[1])
            /\ \A k \in Ev(q, "validated", i) :
                  q.results[i].entities_count = Len(q.log[k].data[1])

\* C4, amended: in every PerFileResult the count is the length of the
\* entities list; in a successful one it is also the length of the list the
\* validator returned and, when that is not empty, the rows the insert
\* returned are the entities; in a failed one it is 0.
C4_CountsAgree ==
    \A r \in Requests :
        LET q == req[r] IN
        \A i \in DOMAIN q.results :
            /\ q.results[i].entities_count = Len(q.results[i].entities)
            /\ ~q.results[i].success => q.results[i].entities_count = 0
            /\ q.results[i].success =>
                  /\ Calls(q, "validated", i) = 1
                  /\ \A k \in Ev(q, "validated", i) :
                        q.results[i].entities_count = Len(q.log[k].data[1])
                  /\ q.results[i].entities_count > 0 =>
                        Calls(q, "insert.ok", i) = 1
            /\ \A k \in Ev(q, "insert.ok", i) :
                  q.results[i].entities = q.log[k].data[1]

\* a success with two stored entities and a success with none
C4_Witness ==
    \E r \in Requests :
        LET q == req[r] IN
        \E i, j \in DOMAIN q.results :
            /\ q.results[i].success /\ q.results[i].entities_count = 2
            /\ q.results[j].success /\ q.results[j].entities_count = 0

\* C5: the whole validated list of a file goes to storage in one insert call,
\* with the file name and the audit payload; a failed insert gives a failed
\* PerFileResult with no entity; a PerFileResult holds all the validated
\* entities or none.
C5_AllOrNothing ==
    \A r \in Requests :
        LET q == req[r] IN
        \A i \in DOMAIN q.files :
            /\ Calls(q, "insert", i) <= 1
            /\ \A k \in Ev(q, "insert", i) :
                  /\ \E v \in Ev(q, "validated", i) :
                        v < k /\ q.log[k].data[1].entities = q.log[v].data[1]
                  /\ q.log[k].data[1].sourceDocumentName = q.files[i].originalname
                  /\ q.log[k].data[1].rawJson.model = MODEL
                  /\ q.log[k].data[1].rawJson.output_text \in ResponseTexts
                  /\ \A x \in Ev(q, "extracted", i) :
                        q.log[k].data[1].rawJson.input_length = Len(q.log[x].data[1])
            /\ Recorded(q, i) =>
                  /\ Ev(q, "insert.error", i) # {} => IsFailure(q.results[i])
                  /\ \A v \in Ev(q, "validated", i) :
                        /\ q.log[v].data[1] # <<>> => Calls(q, "insert", i) = 1
                        /\ Len(q.results[i].entities) \in {0, Len(q.log[v].data[1])}
                        /\ \A n \in DOMAIN q.results[i].entities :
                              q.results[i].entities[n].full_name
                                  = q.log[v].data[1][n].full_name

\* a failed insert of two validated entities, after a stored file
C5_Witness ==
    \E r \in Requests :
        LET q == req[r] IN
        /\ Recorded(q, 2)
        /\ Ev(q, "insert.ok", 1) # {}
        /\ Ev(q, "insert.error", 2) # {}
        /\ \E v \in Ev(q, "validated", 2) : Len(q.log[v].data[1]) = 2

\* C6: when the validator returns an empty list, the PerFileResult is a
\* success with 0 entities and no error, and no insert is made for the file.
C6_EmptyIsSuccess ==
    \A r \in Requests :
        LET q == req[r] IN
        \A k \in DOMAIN q.log :
            q.log[k].op = "validated" /\ q.log[k].data[1] = <<>> =>
                LET i == q.log[k].file IN
                /\ Recorded(q, i)
                /\ q.results[i] = [success |-> TRUE,
                                   filename |-> q.files[i].originalname,
                                   entities_count |-> 0, entities |-> <<>>,
                                   error |-> <<>>]
                /\ Calls(q, "insert", i) = 0
                /\ Calls(q, "insert.ok", i) = 0

C6_Witness ==
    \E r \in Requests :
        LET q == req[r] IN
        /\ Summarised(q)
        /\ \E k \in Ev(q, "validated", 1) : q.log[k].data[1] = <<>>
        /\ q.res.data[1].files_successful = 1

\* C7: when the extracted text is empty or only white space, the file fails
\* with the no-text message, nothing is thrown, and neither the LLM call nor
\* the insert is made for it.
C7_BlankTextRejected ==
    \A r \in Requests :
        LET q == req[r] IN
        \A k \in DOMAIN q.log :
            q.log[k].op = "extracted" /\ Len(trim(q.log[k].data[1])) = 0 =>
                LET i == q.log[k].file IN
                /\ Recorded(q, i)
                /\ q.results[i] = [success |-> FALSE,
                                   filename |-> q.files[i].originalname,
                                   entities_count |-> 0, entities |-> <<>>,
                                   error |-> <<"No text could be extracted from the file">>]
                /\ Calls(q, "throw", i) = 0
                /\ Calls(q, "messages.create", i) = 0
                /\ Calls(q, "insert", i) = 0

\* a blank PDF and a blank DOCX
C7_Witness ==
    \E r \in Requests :
        LET q == req[r] IN
        /\ Recorded(q, 2)
        /\ \A i \in {1, 2} : \E k \in Ev(q, "extracted", i) : q.log[k].data[1] = ""
        /\ Calls(q, "pdfParse", 1) = 1 /\ Calls(q, "mammoth", 2) = 1

RECURSIVE SumCounts(_, _)
\* the sum of entities_count over the results at the positions in S
SumCounts(results, S) ==
    IF S = {} THEN 0
    ELSE LET i == CHOOSE i \in S : TRUE
         IN  results[i].entities_count + SumCounts(results, S \ {i})

\* C8: in the summary, files_processed is the number of submitted files,
\* files_successful the number of successful results, and
\* total_entities_extracted the sum of entities_count, to which failed files
\* add nothing; files_successful <= files_processed.
C8_SummaryCounts ==
    \A r \in Requests :
        LET q == req[r] IN
        Summarised(q) =>
            LET d == q.res.data[1]
                ok == {i \in DOMAIN d.results : d.results[i].success}
            IN  /\ d.results = q.results
                /\ d.files_processed = Len(q.files)
                /\ d.files_successful = Cardinality(ok)
                /\ d.total_entities_extracted
                      = SumCounts(d.results, DOMAIN d.results)
                /\ d.total_entities_extracted = SumCounts(d.results, ok)
                /\ d.files_successful <= d.files_processed

\* a summary of three files: one failed, one with no entity, one with two
C8_Witness ==
    \E r \in Requests :
        LET q == req[r] IN
        /\ Summarised(q)
        /\ q.res.data[1].files_processed = 3
        /\ q.res.data[1].files_successful = 2
        /\ q.res.data[1].total_entities_extracted = 2

Stages == {"readFile", "pdfParse", "mammoth", "messages.create", "insert"}

\* the files of q that have started and have no PerFileResult yet
InProcessing(q) ==
    {i \in DOMAIN q.files : Calls(q, "readFile", i) > 0 /\ Calls(q, "result", i) = 0}

\* C9: the files of a batch are processed one at a time in submission order:
\* every stage of file i + 1 comes after the PerFileResult of file i, and at
\* most one file is in processing.
C9_Sequential ==
    \A r \in Requests :
        LET q == req[r] IN
        /\ Cardinality(InProcessing(q)) <= 1
        /\ \A j \in DOMAIN q.files :
              LET staged == {k \in DOMAIN q.log :
                                q.log[k].file = j /\ q.log[k].op \in Stages}
              IN  /\ \A k \in staged : \A m \in Ev(q, "result", j) : k < m
                  /\ staged # {} /\ j > 1 =>
                        /\ Ev(q, "result", j - 1) # {}
                        /\ \A k \in staged :
                              \A m \in Ev(q, "result", j - 1) : m < k

\* the third file is at its LLM call
C9_Witness ==
    \E r \in Requests :
        LET q == req[r] IN
        /\ q.pc = "messages.create"
        /\ q.i = 3
        /\ InProcessing(q) = {3}

\* C10: at most one LLM call is made for a file, and none after the call for
\* that file has failed.
C10_SingleLlmCall ==
    \A r \in Requests :
        LET q == req[r] IN
        \A i \in DOMAIN q.files :
            /\ Calls(q, "messages.create", i) <= 1
            /\ \A k \in Ev(q, "llmFailed", i) :
                  \A m \in Ev(q, "messages.create", i) : m < k

\* the LLM call of the first file has failed and the batch is answered
C10_Witness ==
    \E r \in Requests :
        LET q == req[r] IN
        /\ Summarised(q)
        /\ Ev(q, "llmFailed", 1) # {}
        /\ q.results[1].error = <<"Claude API error (429): rate_limit_error">>

\* the answer a finished batch of q gets, from its results alone
SummaryOf(q) ==
    LET ok == {i \in DOMAIN q.results : q.results[i].success}
    IN  [status |-> 200, success |-> ok # {}, results |-> q.results,
         files_successful |-> Cardinality(ok)]

\* what the history of a request shows of its cleanup
CleanupState ==
    \A r \in Requests :
        LET q == req[r] IN
        /\ \A k \in DOMAIN q.log :
              q.log[k].op = "unlink" =>
                  /\ Len(q.results) = Len(q.files)
                  /\ \A j \in DOMAIN q.files : \E m \in Ev(q, "result", j) : m < k
                  /\ \A m \in DOMAIN q.log : q.log[m].op \in Stages => m < k
        /\ \A c \in DOMAIN q.files :
              /\ Calls(q, "unlink", c) <= 1
              /\ q.pc = "unlink" => Calls(q, "unlink", c) = (IF c <= q.c THEN 1 ELSE 0)
              /\ q.pc = "done" => Calls(q, "unlink", c) = 1
        /\ q.pc = "done" /\ Len(q.files) > 0 =>
              /\ q.res.sent = 1
              /\ [status |-> q.res.status, success |-> q.res.success,
                  results |-> q.res.data[1].results,
                  files_successful |-> q.res.data[1].files_successful]
                    = SummaryOf(q)
              /\ \A i \in DOMAIN q.results : NormalResult(q, i)

\* a step taken while the files are being removed, failed removal or not,
\* leaves the results as they are
CleanupStep ==
    \A r \in Requests :
        req[r].pc = "unlink" =>
            /\ req'[r].results = req[r].results
            /\ req'[r].pc \in {"unlink", "done"}
            /\ req'[r].res.sent = (IF req'[r].pc = "done" THEN 1 ELSE 0)

\* C11: the removal of the temporary files starts only when every file of the
\* batch has its PerFileResult; by the time the batch is answered the removal
\* of every file has been attempted exactly once, failed files and files
\* after a failed removal included; and whether a removal failed or not, the
\* results are the ones recorded before the removal started and the answer
\* is the 200 summary of those results.
C11_CleanupAfterAll == []CleanupState /\ [][CleanupStep]_vars

\* the removal of the first file has failed, the removal of the second, a
\* failed file, is under way
C11_Witness ==
    \E r \in Requests :
        LET q == req[r] IN
        /\ q.pc = "unlink"
        /\ q.c = 2
        /\ q.warned
        /\ Calls(q, "unlink", 2) = 1
        /\ ~q.results[2].success
        /\ q.results[1].success

\* C12: a request without files is answered once, with status 400,
\* success = false and the error "No files uploaded"; nothing is extracted,
\* no LLM call and no insert is made, no PerFileResult exists and the table
\* is as it was.
C12_NoFilesRejected ==
    \A r \in Requests :
        LET q == req[r] IN
        q.pc # "idle" /\ Len(q.files) = 0 =>
            /\ q.results = <<>>
            /\ \A k \in DOMAIN q.log : q.log[k].op = "respond"
            /\ table = <<>>
            /\ q.pc \in {"received", "done"}
            /\ q.pc = "done" =>
                  /\ q.res = [sent |-> 1, status |-> 400, success |-> FALSE,
                              error |-> "No files uploaded", message |-> "",
                              data |-> <<>>]
                  /\ Len(q.log) = 1

\* the request without files has been answered
C12_Witness ==
    \E r \in Requests :
        LET q == req[r] IN
        /\ q.pc = "done"
        /\ Len(q.files) = 0
        /\ q.res.status = 400

\* ------------------------------------------------------------------------
\* Claims about the validator and the truncation
\* ------------------------------------------------------------------------

RecognisedFields ==
    {"full_name", "email", "phone_number", "address", "organisation",
     "role_title", "comments"}

\* the entity with the given fields, every other field null
EntityWith(fields) ==
    [f \in RecognisedFields |->
        IF f \in DOMAIN fields THEN [t |-> "str", s |-> fields[f]]
        ELSE [t |-> "null"]]

\* the entity each element of ElementTexts stands for in JavaScript
ExpectedEntity ==
    << EntityWith(<<>>),
       EntityWith(<<>>),
       EntityWith(<<>>),
       EntityWith(<<>>),
       EntityWith(<<>>),
       EntityWith([full_name |-> "Jane Doe", email |-> "jane@x.com"]),
       EntityWith([role_title |-> "5", comments |-> "false"]),
       EntityWith([full_name |-> "Jane Doe", organisation |-> "ACME  Ltd"]),
       EntityWith([full_name |-> "", comments |-> " a"]) >>

\* the response of the unit has been parsed
UnitParsed(kind) == unit.kind = kind /\ unit.parsed # <<>>

\* C13: for a response that is the envelope or a bare array, parse returns
\* one entity per element of the array, in the order of the array: none is
\* dropped, merged or deduplicated.
C13_OnePerElement ==
    UnitParsed("array") =>
        /\ ~unit.parsed[1].threw
        /\ Len(unit.parsed[1].value) = Len(unit.els)
        /\ \A i \in DOMAIN unit.els :
              unit.parsed[1].value[i] = ExpectedEntity[unit.els[i]]

\* a bare array that holds the same person twice, then an empty object
C13_Witness ==
    /\ UnitParsed("array")
    /\ unit.responseText = Render("bare", <<6, 6>>)
    /\ Len(unit.parsed[1].value) = 2
    /\ unit.parsed[1].value[1] = unit.parsed[1].value[2]

\* the elements of ElementTexts that are not objects
NonObjects == {1, 2, 3, 4}

\* the entity parse gives for the element e when it is alone in the envelope
Alone(e) == parseExtractionResponse(Render("envelope", <<e>>)).value[1]

\* C14: an element that is not an object (null, a string, a number, a
\* boolean) gives the entity with every field null at its index, parse does
\* not fail, and the entities of the other indices are what they are
\* without it.
C14_NonObjectPlaceholder ==
    UnitParsed("array") =>
        /\ ~unit.parsed[1].threw
        /\ Len(unit.parsed[1].value) = Len(unit.els)
        /\ \A i \in DOMAIN unit.els :
              unit.els[i] \in NonObjects =>
                  /\ DOMAIN unit.parsed[1].value[i] = RecognisedFields
                  /\ \A f \in RecognisedFields :
                        unit.parsed[1].value[i][f] = [t |-> "null"]
                  /\ \A j \in DOMAIN unit.els \ {i} :
                        unit.parsed[1].value[j] = Alone(unit.els[j])

\* a string before a person in the envelope
C14_Witness ==
    /\ UnitParsed("array")
    /\ unit.els = <<2, 6>>
    /\ unit.responseText = Render("envelope", <<2, 6>>)
    /\ unit.parsed[1].value[2].email = [t |-> "str", s |-> "jane@x.com"]

\* the members of the object elements of ElementTexts whose values are
\* scalars: <<element, key, kind of value, text of the value>>
ScalarMembers ==
    { <<6, "full_name", "string", "Jane Doe">>,
      <<6, "email", "string", " jane@x.com ">>,
      <<7, "full_name", "string", "  ">>,
      <<7, "email", "string", "">>,
      <<7, "role_title", "number", "5">>,
      <<7, "comments", "boolean", "false">>,
      <<7, "phone_number", "null", "">>,
      <<8, "full_name", "string", "Jane Doe">>,
      <<8, "extra", "string", "z">>,
      <<8, "organisation", "string", "ACME  Ltd">> }

ScalarObjects == {5, 6, 7, 8}

\* the one rule: what a member of the given kind and text becomes
Normalised(kind, text) ==
    CASE kind = "null" -> [t |-> "null"]
      [] kind = "string" ->
            IF trim(text) = "" THEN [t |-> "null"]
            ELSE [t |-> "str", s |-> trim(text)]
      [] OTHER -> [t |-> "str", s |-> text]

\* C15: each recognised field of an object element is normalised on its own
\* by the one rule (absent or null gives null, a string gives its trimmed
\* value or null when that is empty, a number or a boolean gives its string
\* form), a trimmed string that is not empty is kept as it is, and the
\* entity has the recognised fields and no other.
C15_FieldNormalisation ==
    UnitParsed("array") =>
        \A i \in DOMAIN unit.els :
            unit.els[i] \in ScalarObjects =>
                /\ DOMAIN unit.parsed[1].value[i] = RecognisedFields
                /\ \A f \in RecognisedFields :
                      LET given == {m \in ScalarMembers :
                                        m[1] = unit.els[i] /\ m[2] = f}
                      IN  /\ given = {} =>
                                unit.parsed[1].value[i][f] = [t |-> "null"]
                          /\ \A m \in given :
                                unit.parsed[1].value[i][f]
                                    = Normalised(m[3], m[4])

\* blank strings, a number, a boolean and null in one element, after an
\* element with a key that is not recognised
C15_Witness ==
    /\ UnitParsed("array")
    /\ unit.els = <<8, 7>>
    /\ unit.parsed[1].value[1].organisation = [t |-> "str", s |-> "ACME  Ltd"]
    /\ unit.parsed[1].value[2].full_name = [t |-> "null"]
    /\ unit.parsed[1].value[2].role_title = [t |-> "str", s |-> "5"]

\* C16 as stated: for a text that is valid JSON, parse of the text inside a
\* fenced code block, with any language tag or none and with white space
\* around, gives what parse of the text gives.
C16_Original ==
    unit.pc = "fenced" /\ unit.kind \in {"array", "wrongShape"} =>
        unit.parsedFenced = unit.parsed

\* C17: valid JSON that is neither an object with an entities array nor an
\* array (a number, a string, a boolean, null, an object without entities or
\* with entities that is not an array) makes parse fail with its error for
\* the shape, and gives no entity list.
C17_WrongShapeFails ==
    UnitParsed("wrongShape") =>
        /\ unit.parsed[1].threw
        /\ unit.parsed[1].value = <<>>
        /\ unit.parsed[1].message
              = (IF Ch(trim(unit.responseText), 1) = "{"
                 THEN "Claude response missing 'entities' array"
                 ELSE "Claude response is not an object")

\* an object whose entities is null
C17_Witness ==
    /\ UnitParsed("wrongShape")
    /\ unit.responseText = "{\"entities\":null}"
    /\ unit.parsed[1].threw

\* C18: a text that is not JSON once the fences are stripped makes parse fail
\* with the invalid-JSON error, whose message ends with the first 200
\* characters of the response at most (the whole response only when it is
\* no longer than that), and gives no entity list.
C18_InvalidJsonFails ==
    UnitParsed("invalid") =>
        LET text == unit.responseText
            n == IF Len(text) < 200 THEN Len(text) ELSE 200
            head == "Claude returned invalid JSON. Response: "
            message == unit.parsed[1].message
        IN  /\ unit.parsed[1].threw
            /\ unit.parsed[1].value = <<>>
            /\ Len(message) = Len(head) + n
            /\ SubSeq(message, 1, Len(head)) = head
            /\ n > 0 => SubSeq(message, Len(head) + 1, Len(message))
                            = SubSeq(text, 1, n)

\* the start of an envelope followed by 450 characters that are not JSON
C18_Witness ==
    /\ UnitParsed("invalid")
    /\ Len(unit.responseText) = 463
    /\ unit.parsed[1].threw
    /\ Len(unit.parsed[1].message) = 240

\* C19 as stated: parse of the envelope that holds a list parse returned
\* gives that list again.
C19_Original ==
    unit.pc = "reparsed" =>
        /\ ~unit.reparsed[1].threw
        /\ unit.reparsed[1].value = unit.parsed[1].value

\* the text sent with the request, after the template
SentText == SliceFrom(unit.content, Len(EXTRACTION_USER_PROMPT))

\* C20 as stated: the text sent is the document when it has at most 50000
\* characters, and its first 50000 characters followed by the marker
\* otherwise; the marker is at the end of the text sent if and only if the
\* document was cut.
C20_Original ==
    unit.pc = "requested" =>
        /\ Len(unit.documentText) <= 50000 => SentText = unit.documentText
        /\ Len(unit.documentText) > 50000 =>
              SentText = SubSeq(unit.documentText, 1, 50000) \o TruncationMarker
        /\ endsWith(SentText, TruncationMarker) <=> Len(unit.documentText) > 50000

\* C20, amended: the text sent is the document when it has at most 50000
\* characters, and its first 50000 characters followed by the marker
\* otherwise, so no character of the document past the first 50000 is sent;
\* the marker is appended if and only if the document was cut (a document
\* of at most 50000 characters that itself ends with the words of the
\* marker is sent as it is).
C20_Truncation ==
    unit.pc = "requested" =>
        /\ SubSeq(unit.content, 1, Len(EXTRACTION_USER_PROMPT))
              = EXTRACTION_USER_PROMPT
        /\ Len(unit.documentText) <= 50000 => SentText = unit.documentText
        /\ Len(unit.documentText) > 50000 =>
              /\ SentText = SubSeq(unit.documentText, 1, 50000) \o TruncationMarker
              /\ Len(SentText) = 50000 + Len(TruncationMarker)
        /\ Len(SentText) <= 50000 + Len(TruncationMarker)

\* a document of 50001 characters has been cut
C20_Witness ==
    /\ unit.pc = "requested"
    /\ Len(unit.documentText) = 50001
    /\ Len(unit.truncatedText) = 50000 + Len(TruncationMarker)
    /\ endsWith(unit.truncatedText, "b" \o TruncationMarker)

\* ------------------------------------------------------------------------
\* Claims about the text extractor and the extraction client
\* ------------------------------------------------------------------------

\* C21 as stated: every failure of the text extraction of a supported file
\* (the file cannot be read, the parser rejects it) leaves extractTextFromFile
\* as the extractor's own failure, "Failed to parse ...", with the original
\* file name and the cause in it.
C21_Original ==
    \A r \in Requests :
        LET q == req[r] IN
        \A i \in DOMAIN q.results :
            \A k \in Ev(q, "throw", i) :
                q.log[k].data[1] \in {"readFile", "parse"} =>
                    /\ SubSeq(q.results[i].error[1], 1, 16) = "Failed to parse "
                    /\ Contains(q.results[i].error[1], q.files[i].originalname)

\* the type an unsupported name or MIME type of the catalogues declares
OffendingType(u) ==
    CASE u.originalName = "notes.txt" -> <<".txt">>
      [] u.originalName = "old.doc" -> <<".doc">>
      [] u.originalName = "scan.pdf.zip" -> <<".zip">>
      [] u.mimeType \in {"application/msword", "text/plain", "image/png"}
            -> <<u.mimeType>>
      [] OTHER -> <<>>

\* the message lists the supported types, as extensions or as MIME types
ListsSupported(message) ==
    \/ Contains(message, ".pdf") /\ Contains(message, ".docx")
    \/ /\ Contains(message, "application/pdf")
       /\ Contains(message,
              "application/vnd.openxmlformats-officedocument.wordprocessingml.document")

\* C22 as stated: the extraction dispatches on two supported types; for any
\* other type, by file name or by MIME type, it throws an error that names
\* the offending type and lists the supported types, and calls no parser.
C22_Original ==
    unit.pc = "dispatched" =>
        /\ unit.parser \in {"pdfParse", "mammoth", ""}
        /\ \A k \in DOMAIN OffendingType(unit) :
              /\ unit.parser = ""
              /\ Len(unit.thrown) = 1
              /\ Contains(unit.thrown[1], OffendingType(unit)[k])
              /\ ListsSupported(unit.thrown[1])

\* C23 as stated: every failure of the LLM call at the transport or provider
\* level (an API error, a response without a text block) leaves
\* callClaudeForExtraction as the error that carries the provider status and
\* message, and the validator is not run.
C23_Original ==
    \A r \in Requests :
        LET q == req[r] IN
        \A i \in DOMAIN q.results :
            Ev(q, "llmFailed", i) # {} =>
                /\ \E e \in ApiErrors :
                      q.results[i].error
                          = <<"Claude API error (" \o e.status \o "): " \o e.message>>
                /\ Calls(q, "validated", i) = 0
                /\ Calls(q, "rejected", i) = 0

\* C25 as stated: every field of every entity the validator returns is null
\* or a string that is not empty and has no white space at either end,
\* whatever JSON value the model gave for it.
C25_Original ==
    UnitParsed("array") =>
        \A i \in DOMAIN unit.parsed[1].value :
            \A f \in DOMAIN unit.parsed[1].value[i] :
                LET v == unit.parsed[1].value[i][f]
                IN  \/ v = [t |-> "null"]
                    \/ v.t = "str" /\ v.s # "" /\ trim(v.s) = v.s

\* the stages of a file, in the order processFile runs them
StageRank(op) ==
    CASE op \in {"readFile", "pdfParse", "mammoth", "extracted"} -> 1
      [] op \in {"messages.create", "llmFailed", "rejected", "validated"} -> 2
      [] op \in {"insert", "insert.ok", "insert.error"} -> 3
      [] OTHER -> 0

\* C26: within one file the stages run in the order text extraction, LLM
\* call, storage insert: the LLM call is made only after the text extraction
\* of that file returned text that is not blank, the insert only after the
\* validator returned a list of entities that is not empty, the stages of a
\* file never go backwards, and nothing of a file runs after one of its
\* stages threw or its text was blank.
C26_StageOrder ==
    \A r \in Requests :
        LET q == req[r] IN
        \A k \in DOMAIN q.log :
            LET e == q.log[k]
                earlier == {j \in 1..(k - 1) : q.log[j].file = e.file}
            IN
            /\ e.op = "messages.create" =>
                  /\ \E j \in earlier :
                        /\ q.log[j].op = "extracted"
                        /\ Len(trim(q.log[j].data[1])) > 0
                  /\ \E j \in earlier : q.log[j].op \in {"pdfParse", "mammoth"}
            /\ e.op = "insert" =>
                  /\ \E j \in earlier :
                        /\ q.log[j].op = "validated"
                        /\ Len(q.log[j].data[1]) > 0
                        /\ q.log[j].data[1] = e.data[1].entities
                  /\ \E j \in earlier : q.log[j].op = "messages.create"
            /\ StageRank(e.op) > 0 =>
                  \A j \in earlier :
                      /\ StageRank(q.log[j].op) <= StageRank(e.op)
                      /\ q.log[j].op # "throw"
                      /\ ~(q.log[j].op = "extracted" /\ q.log[j].data[1] = "")

\* one file went through the three stages, the next one failed in the second
C26_Witness ==
    \E r \in Requests :
        LET q == req[r] IN
        /\ Recorded(q, 2)
        /\ Calls(q, "insert.ok", 1) = 1
        /\ Calls(q, "rejected", 2) = 1
        /\ Calls(q, "insert", 2) = 0

\* C27: every PerFileResult with success false has entities_count 0, an empty
\* entities list and an error message; every PerFileResult with success true
\* has no error field; this holds of the results pushed so far and of the
\* results in the summary sent.
C27_ResultShape ==
    \A r \in Requests :
        LET q == req[r]
            shaped(result) ==
                /\ ~result.success =>
                      /\ result.entities_count = 0
                      /\ result.entities = <<>>
                      /\ Len(result.error) = 1
                      /\ result.error[1] # ""
                /\ result.success => result.error = <<>>
        IN  /\ \A i \in DOMAIN q.results : shaped(q.results[i])
            /\ Summarised(q) =>
                  \A i \in DOMAIN q.res.data[1].results :
                      shaped(q.res.data[1].results[i])

\* a summary sent with a failed and a successful result in it
C27_Witness ==
    \E r \in Requests :
        LET q == req[r] IN
        /\ Summarised(q)
        /\ \E i, j \in DOMAIN q.res.data[1].results :
              /\ ~q.res.data[1].results[i].success
              /\ q.res.data[1].results[j].success
              /\ q.res.data[1].results[j].entities_count > 0

\* the response of a batch is sent once at most, after every file has its
\* PerFileResult and the removal of every file was attempted; while a call of
\* messages.create is pending nothing is sent and no later file is started
C28_Safety ==
    \A r \in Requests :
        LET q == req[r] IN
        /\ q.res.sent <= 1
        /\ q.res.sent = 1 /\ Len(q.files) > 0 =>
              /\ q.pc = "done"
              /\ Len(q.results) = Len(q.files)
              /\ \A i \in DOMAIN q.files : Calls(q, "unlink", i) = 1
        /\ q.pc = "messages.create" =>
              /\ q.res.sent = 0
              /\ Len(q.results) = q.i - 1
              /\ \A k \in DOMAIN q.log : q.log[k].file <= q.i

\* a request that waits for messages.create moves only when that call settles
C28_Blocked ==
    \A r \in Requests :
        req[r].pc = "messages.create" /\ req'[r] # req[r] =>
            /\ MessagesCreateReturn(r)
            /\ Len(req'[r].log) > Len(req[r].log)

\* C28: provided every awaited call (readFile, the parsers, messages.create,
\* the insert, unlink) returns or throws, every upload with at least one
\* file sends one response in the end, exactly one, and only after every
\* file has a PerFileResult and the cleanup was attempted; while a call of
\* messages.create has not returned, no response is sent and no later file
\* of the batch is processed, and only its return lets the request go on.
C28_EventuallyResponds ==
    /\ []C28_Safety
    /\ [][C28_Blocked]_vars
    /\ \A r \in Requests :
          (Len(req[r].files) > 0) ~> (req[r].res.sent = 1 /\ req[r].pc = "done")

\* a batch of more than one file answered after a failed removal
C28_Witness ==
    \E r \in Requests :
        LET q == req[r] IN
        /\ Len(q.files) >= 2
        /\ q.res.sent = 1
        /\ q.warned
        /\ Calls(q, "messages.create", 1) = 1

\* a step changes the record of one request only, and changes it as the
\* handler of that request would on its own, given what its call returned
C24_Isolated ==
    \A r \in Requests :
        req'[r] # req[r] =>
            /\ \A s \in Requests \ {r} : req'[s] = req[s]
            /\ \E firstId \in 1..nextId : AloneStep(req[r], req'[r], firstId)

\* the rows in the results of a request are rows of its own files, and they
\* are in the table whatever the other request has inserted
C24_OwnRows ==
    \A r \in Requests :
        LET q == req[r] IN
        \A i \in DOMAIN q.results :
            /\ q.results[i].filename = q.files[i].originalname
            /\ Persisted(q.results[i].entities)
            /\ \A k \in DOMAIN q.results[i].entities :
                  /\ q.results[i].entities[k].source_document_name
                        = q.files[i].originalname
                  /\ \E j \in Ev(q, "validated", i) :
                        /\ k <= Len(q.log[j].data[1])
                        /\ q.results[i].entities[k].full_name
                              = q.log[j].data[1][k].full_name
                        /\ q.results[i].entities[k].comments
                              = q.log[j].data[1][k].comments

\* getClient, called for file i of request r, reads no client that the
\* processing of another file or batch made
ReadsOwnClient ==
    \A r \in Requests :
        req[r].pc = "messages.create" /\ req'[r].pc = "insert" =>
            (supabase.created => supabase.by = r /\ supabase.file = req[r].i)

\* C24 as stated: when two uploads run together and interleave at their
\* awaits, the results and the summary of each are what that upload would
\* give alone with the same outcomes of its calls, and no state written while
\* one file or batch is processed is read while another is.
C24_Original ==
    /\ []C24_OwnRows
    /\ [][C24_Isolated /\ ReadsOwnClient]_vars

\* C24: when two uploads run together and interleave at their awaits, every
\* step changes one request only, as its handler alone would with the same
\* outcome of the call (the storage numbering the rows), so the results and
\* the summary of each are what that upload would give alone; the rows of
\* each stay in the table.  The one state written in one batch and read in
\* another is the storage client that getClient keeps.
C24_Interleaved ==
    /\ []C24_OwnRows
    /\ [][C24_Isolated]_vars

\* both uploads answered with stored entities, the second one having
\* inserted first through the client the first one made
C24_Witness ==
    /\ \A r \in Requests :
          /\ Summarised(req[r])
          /\ req[r].results[1].success
          /\ req[r].results[1].entities_count > 0
    /\ table[1].source_document_name = FileNameAt(2)
    /\ supabase.by = 1

\* C29 as stated: for any stored entity id, across every interleaving of
\* concurrent DELETE requests for that id, at most one request answers with
\* success and every other one (that met no storage error) answers 404
\* 'Entity not found'; a request whose id is not shaped as a UUID answers 400
\* without any storage access.
C29_Original ==
    /\ \A n \in {StoredRows[k].id : k \in DOMAIN StoredRows} :
          LET answered == {d \in Deleters :
                              /\ del[d].pc = "done"
                              /\ uuidRegex(del[d].id)
                              /\ toLowerCase(del[d].id) = Uuid(n)
                              /\ del[d].res.status # 500}
          IN  /\ Cardinality({d \in answered : del[d].res.success}) <= 1
              /\ \A d \in answered :
                    \/ del[d].res.status = 200 /\ del[d].res.success
                    \/ /\ del[d].res.status = 404
                       /\ del[d].res.text = "Entity not found"
    /\ \A d \in Deleters :
          del[d].pc = "done" /\ ~uuidRegex(del[d].id) =>
              /\ del[d].res.status = 400
              /\ del[d].accesses = 0

\* the calls of getEntities made for the (page, search) now chosen that
\* returned a body with success true
Answered ==
    {k \in DOMAIN ui.calls :
        /\ ui.calls[k].page = ui.page
        /\ ui.calls[k].search = ui.search
        /\ ~ui.calls[k].pending
        /\ ui.calls[k].outcome = "ok"}

\* C30 as stated: once every call of the list has completed, the list and the
\* total on display are those returned for the latest (page, search) the
\* user chose: a response to an earlier call that arrives after the response
\* to a later one does not overwrite it.
C30_Original ==
    (/\ ui.mounted
     /\ \A k \in DOMAIN ui.calls : ~ui.calls[k].pending
     /\ Answered # {}) =>
        \E k \in Answered :
            /\ \A j \in Answered : j <= k
            /\ ui.entities = ui.calls[k].data.entities
            /\ ui.total = ui.calls[k].data.total

====
